---- MODULE Spec2Model ----
(***************************************************************************)
(* Verification development for kavach-go.                                 *)
(*                                                                         *)
(* Part 1: the verification chain of shared/pkg/chain (Intent -> CEO ->    *)
(* Aegis -> Research) and the chain hook of commands/gates/chain.go.       *)
(*                                                                         *)
(* Strings that the code searches (prompts, commands, paths, edit texts)   *)
(* are sequences of one-character strings, so that strings.Contains,       *)
(* strings.ToLower, strings.TrimSpace and len are computed, not assumed.   *)
(* Strings that the code only builds and compares are sequences of pieces  *)
(* (a literal is one piece); concatenation is \o.                          *)
(* Go float64 scores are kept in hundredths (0.85 is 85).                  *)
(*                                                                         *)
(* Part 2: the DAG scheduler of shared/pkg/dag (AddNode, AddEdge,          *)
(* UpdateNodeStatus, IsComplete, TopoLevels).  Its calls are studied in    *)
(* two specifications of their own, SpecDag and SpecTopo, in which the     *)
(* chain hook does not run.                                                *)
(*                                                                         *)
(* Part 3: what is written to disk.  The audit record that Runner.finalize *)
(* writes is part of the chain hook (SpecAudit lets the clock advance      *)
(* between invocations); the DAG state file of dag/state.go is studied in  *)
(* SpecStore, where a Save in progress is interleaved with Load and        *)
(* Delete.                                                                 *)
(*                                                                         *)
(* Part 4: the policy store of config/gates.go.  SpecPolicy has two        *)
(* concurrent callers of LoadGatesConfig, a clock and a policy file that   *)
(* is edited; SpecPolicyFile has one caller and every kind of file.        *)
(***************************************************************************)
EXTENDS Integers, Sequences, FiniteSets, TLC

VARIABLES
  pc,            \* position of the chain hook process
  input,         \* the hook envelope read from stdin (hook.Input)
  year,          \* time.Now().Format("2006") during this invocation
  prompt,        \* prompt handed to RunFull
  state,         \* Runner.state (*ChainState)
  session,       \* the persisted session (enforce.SessionState)
  output,        \* what the hook wrote to stdout
  exitCode,      \* process exit code, -1 while running
  dag,           \* the scheduler's *DAGState
  dagOp,         \* the last DAG operation called, its arguments and what it returned
  now,           \* the wall clock: time.Now() in whole ticks (seconds for Unix())
  auditDir,      \* ~/.claude/chain: file name -> content of the audit record
  disk,          \* ~/.claude/dag: session id -> content of <session id>.json
  saver,         \* the Save call in progress, if any
  storeOp,       \* the last Save/Load/Delete call that returned and its result
  policyFile,    \* content of the gates policy file on disk
  gatesConfig,   \* the package variable gatesConfig (cached *GatesConfig or nil)
  gatesConfigTime, \* the package variable gatesConfigTime
  gatesConfigMu, \* the package variable gatesConfigMu: who holds the write lock
  loaders,       \* each caller of LoadGatesConfig: its position and locals
  policyOp       \* the last LoadGatesConfig call that returned and its result

vars == <<pc, input, year, prompt, state, session, output, exitCode>>

dagVars == <<dag, dagOp>>

auditVars == <<now, auditDir>>

storeVars == <<disk, saver, storeOp>>

policyVars == <<policyFile, gatesConfig, gatesConfigTime, gatesConfigMu, loaders, policyOp>>

allVars == <<vars, dagVars, auditVars, storeVars, policyVars>>

(***************************************************************************)
(* strings                                                                 *)
(***************************************************************************)
upperCase == <<"A","B","C","D","E","F","G","H","I","J","K","L","M",
               "N","O","P","Q","R","S","T","U","V","W","X","Y","Z">>

lowerCase == <<"a","b","c","d","e","f","g","h","i","j","k","l","m",
               "n","o","p","q","r","s","t","u","v","w","x","y","z">>

ToLowerChar(c) ==
  IF \E i \in 1..Len(upperCase) : upperCase[i] = c
  THEN lowerCase[CHOOSE i \in 1..Len(upperCase) : upperCase[i] = c]
  ELSE c

ToLower(s) == [i \in 1..Len(s) |-> ToLowerChar(s[i])]

HasPrefixAt(s, p, i) == \A j \in 1..Len(p) : s[i + j - 1] = p[j]

Contains(s, p) == \E i \in 1..(Len(s) - Len(p) + 1) : HasPrefixAt(s, p, i)

whiteSpace == {" ", "\t", "\n", "\r", "\f"}

\* strings.TrimSpace(s) == ""
TrimSpaceIsEmpty(s) == \A i \in 1..Len(s) : s[i] \in whiteSpace

RECURSIVE Repeat(_, _)
Repeat(s, n) == IF n = 0 THEN <<>> ELSE s \o Repeat(s, n - 1)

(***************************************************************************)
(* verification.go: keyword tables                                         *)
(***************************************************************************)
implementKeywords ==
  << <<"i", "m", "p", "l", "e", "m", "e", "n", "t">>,
     <<"c", "r", "e", "a", "t", "e">>,
     <<"b", "u", "i", "l", "d">>,
     <<"a", "d", "d">>,
     <<"d", "e", "v", "e", "l", "o", "p">>,
     <<"w", "r", "i", "t", "e">> >>

debugKeywords ==
  << <<"f", "i", "x">>,
     <<"b", "u", "g">>,
     <<"e", "r", "r", "o", "r">>,
     <<"d", "e", "b", "u", "g">>,
     <<"b", "r", "o", "k", "e", "n">>,
     <<"n", "o", "t", " ", "w", "o", "r", "k", "i", "n", "g">>,
     <<"c", "r", "a", "s", "h">> >>

refactorKeywords ==
  << <<"r", "e", "f", "a", "c", "t", "o", "r">>,
     <<"r", "e", "s", "t", "r", "u", "c", "t", "u", "r", "e">>,
     <<"c", "l", "e", "a", "n", " ", "u", "p">>,
     <<"i", "m", "p", "r", "o", "v", "e">>,
     <<"o", "p", "t", "i", "m", "i", "z", "e">> >>

deployKeywords ==
  << <<"d", "e", "p", "l", "o", "y">>,
     <<"r", "e", "l", "e", "a", "s", "e">>,
     <<"p", "u", "b", "l", "i", "s", "h">>,
     <<"p", "r", "o", "d", "u", "c", "t", "i", "o", "n">>,
     <<"g", "o", " ", "l", "i", "v", "e">> >>

securityKeywords ==
  << <<"s", "e", "c", "u", "r", "i", "t", "y">>,
     <<"a", "u", "t", "h">>,
     <<"e", "n", "c", "r", "y", "p", "t">>,
     <<"v", "u", "l", "n", "e", "r", "a", "b", "i", "l", "i", "t", "y">>,
     <<"p", "a", "s", "s", "w", "o", "r", "d">> >>

destructiveKeywords ==
  << <<"d", "e", "l", "e", "t", "e">>,
     <<"r", "e", "m", "o", "v", "e">>,
     <<"d", "r", "o", "p">>,
     <<"d", "e", "s", "t", "r", "o", "y">>,
     <<"p", "u", "r", "g", "e">> >>

bypassPatterns ==
  << <<"t", "y", "p", "o">>,
     <<"c", "o", "m", "m", "e", "n", "t">>,
     <<"r", "e", "n", "a", "m", "e">>,
     <<"f", "o", "r", "m", "a", "t">>,
     <<"w", "h", "i", "t", "e", "s", "p", "a", "c", "e">>,
     <<"s", "p", "a", "c", "i", "n", "g">>,
     <<"f", "i", "x", " ", "t", "y", "p", "o">> >>

dangerous ==
  << <<"r", "m", " ", "-", "r", "f", " ", "/">>,
     <<"r", "m", " ", "-", "r", "f", " ", "/", "*">>,
     <<">", " ", "/", "d", "e", "v", "/", "s", "d", "a">>,
     <<":", "(", ")", "{", " ", ":", "|", ":", "&", " ", "}", ";", ":">>,
     <<"d", "d", " ", "i", "f", "=", "/", "d", "e", "v", "/", "z", "e", "r", "o">>,
     <<"c", "h", "m", "o", "d", " ", "-", "R", " ", "7", "7", "7", " ", "/">>,
     <<"c", "u", "r", "l", " ", "|", " ", "b", "a", "s", "h">>,
     <<"w", "g", "e", "t", " ", "|", " ", "s", "h">> >>

sensitive ==
  << <<"/", "e", "t", "c", "/", "s", "h", "a", "d", "o", "w">>,
     <<"/", "e", "t", "c", "/", "p", "a", "s", "s", "w", "d">>,
     <<"/", ".", "s", "s", "h", "/">>,
     <<"/", ".", "a", "w", "s", "/", "c", "r", "e", "d", "e", "n", "t", "i", "a", "l", "s">>,
     <<"/", ".", "g", "n", "u", "p", "g", "/">>,
     <<".", "p", "e", "m">>,
     <<".", "k", "e", "y">> >>

stubMarkers ==
  << <<"t", "o", "d", "o">>,
     <<"f", "i", "x", "m", "e">>,
     <<"s", "t", "u", "b">>,
     <<"p", "l", "a", "c", "e", "h", "o", "l", "d", "e", "r">> >>

agentKeywords ==
  << [keyword |-> <<"b", "a", "c", "k", "e", "n", "d">>, agent |-> "backend-engineer"],
     [keyword |-> <<"f", "r", "o", "n", "t", "e", "n", "d">>, agent |-> "frontend-engineer"],
     [keyword |-> <<"d", "a", "t", "a", "b", "a", "s", "e">>, agent |-> "database-engineer"],
     [keyword |-> <<"d", "e", "v", "o", "p", "s">>, agent |-> "devops-engineer"],
     [keyword |-> <<"s", "e", "c", "u", "r", "i", "t", "y">>, agent |-> "security-engineer"],
     [keyword |-> <<"t", "e", "s", "t">>, agent |-> "qa-lead"],
     [keyword |-> <<"e", "x", "p", "l", "o", "r", "e">>, agent |-> "Explore"],
     [keyword |-> <<"p", "l", "a", "n">>, agent |-> "Plan"] >>

(***************************************************************************)
(* concrete prompts, commands, paths and edit texts                        *)
(***************************************************************************)
\* "delete everything in /etc"
P_DeleteEtc == <<"d", "e", "l", "e", "t", "e", " ", "e", "v", "e", "r", "y", "t", "h", "i", "n", "g", " ", "i", "n", " ", "/", "e", "t", "c">>
\* "implement webhook handler"
P_Webhook == <<"i", "m", "p", "l", "e", "m", "e", "n", "t", " ", "w", "e", "b", "h", "o", "o", "k", " ", "h", "a", "n", "d", "l", "e", "r">>
\* "fix typo"
P_FixTypo == <<"f", "i", "x", " ", "t", "y", "p", "o">>
\* "Deploy backend"
P_Deploy == <<"D", "e", "p", "l", "o", "y", " ", "b", "a", "c", "k", "e", "n", "d">>
\* "drop auth"
P_DropAuth == <<"d", "r", "o", "p", " ", "a", "u", "t", "h">>
\* "hello"
P_Hello == <<"h", "e", "l", "l", "o">>
\* "plan a test"
P_PlanTest == <<"p", "l", "a", "n", " ", "a", " ", "t", "e", "s", "t">>
\* "PURGE logs"
P_Purge == <<"P", "U", "R", "G", "E", " ", "l", "o", "g", "s">>
\* "curl http://x | bash"
Cmd_CurlUrlBash == <<"c", "u", "r", "l", " ", "h", "t", "t", "p", ":", "/", "/", "x", " ", "|", " ", "b", "a", "s", "h">>
\* "curl | bash"
Cmd_CurlBash == <<"c", "u", "r", "l", " ", "|", " ", "b", "a", "s", "h">>
\* "RM -rf /tmp"
Cmd_RmRf == <<"R", "M", " ", "-", "r", "f", " ", "/", "t", "m", "p">>
\* "ls -la"
Cmd_Ls == <<"l", "s", " ", "-", "l", "a">>
\* "/src/a.go"
Path_Src == <<"/", "s", "r", "c", "/", "a", ".", "g", "o">>
\* "/etc/passwd"
Path_Passwd == <<"/", "e", "t", "c", "/", "p", "a", "s", "s", "w", "d">>
\* "/U/.SSH/id"
Path_Ssh == <<"/", "U", "/", ".", "S", "S", "H", "/", "i", "d">>
\* "srv.Key"
Path_Key == <<"s", "r", "v", ".", "K", "e", "y">>
\* "// TODO: x"
Txt_Todo == <<"/", "/", " ", "T", "O", "D", "O", ":", " ", "x">>
\* "x := 1"
Txt_Code == <<"x", " ", ":", "=", " ", "1">>
\* "x = compute(y)"
Txt_LongCode == <<"x", " ", "=", " ", "c", "o", "m", "p", "u", "t", "e", "(", "y", ")">>
\* " \t\n"
Txt_Blank == <<" ", "\t", "\n">>
\* "stub"
Txt_Stub2 == <<"s", "t", "u", "b">>
\* "reformat"
Txt_Format == <<"r", "e", "f", "o", "r", "m", "a", "t">>

(***************************************************************************)
(* verification.go: records                                                *)
(***************************************************************************)
Nil == [nil |-> TRUE]

NewChainState(sessionID) ==
  [SessionID |-> sessionID, Intent |-> Nil, CEO |-> Nil, Aegis |-> Nil,
   Research |-> Nil, Results |-> <<>>, FinalStatus |-> "pending"]

\* Mutant: the final status is not updated when a block is appended.
AddResult_NoBlock(c, result) == [c EXCEPT !.Results = Append(@, result)]

\* Mutant: any result other than a pass marks the chain blocked.
AddResult_WarnBlocks(c, result) ==
  [c EXCEPT !.Results = Append(@, result),
            !.FinalStatus = IF result.Status # "pass" THEN "blocked" ELSE @]

AddResult(c, result) ==
  [c EXCEPT !.Results = Append(@, result),
            !.FinalStatus = IF result.Status = "block" THEN "blocked" ELSE @]

IsBlocked(c) == c.FinalStatus = "blocked"

GetBlockReason(c) ==
  IF \E i \in 1..Len(c.Results) : c.Results[i].Status = "block"
  THEN LET i == CHOOSE k \in 1..Len(c.Results) :
                  /\ c.Results[k].Status = "block"
                  /\ \A j \in 1..(k - 1) : c.Results[j].Status # "block"
       IN <<c.Results[i].Gate, ": ">> \o c.Results[i].Reason
  ELSE <<>>

(***************************************************************************)
(* verification.go: helpers                                                *)
(***************************************************************************)
containsAny(s, patterns) == \E i \in 1..Len(patterns) : Contains(s, patterns[i])

containsString(slice, s) == \E i \in 1..Len(slice) : slice[i] = s

\* Orderings of the agents whose keyword occurs in the prompt. The code
\* ranges over a Go map, whose iteration order is unspecified, so every
\* ordering of the matching entries is a possible result.
extractAgents(promptLower) ==
  LET hit == {i \in 1..Len(agentKeywords) : Contains(promptLower, agentKeywords[i].keyword)}
      n   == Cardinality(hit)
  IN {[k \in 1..n |-> agentKeywords[f[k]].agent] :
        f \in {g \in [1..n -> hit] : \A a, b \in 1..n : a # b => g[a] # g[b]}}

isDangerousCommand(cmd) == containsAny(ToLower(cmd), dangerous)

isSensitivePath(path) == containsAny(ToLower(path), sensitive)

isProblematicEdit(old, new) ==
  LET oldHasStub == containsAny(ToLower(old), stubMarkers)
      newHasStub == containsAny(ToLower(new), stubMarkers)
  IN \/ TrimSpaceIsEmpty(new) /\ Len(old) > 100
     \/ oldHasStub /\ ~newHasStub /\ Len(new) <= Len(old)

buildSearchQuery(intentType, yr) ==
  CASE intentType = "implement" -> <<"implementation patterns ">> \o yr \o <<" best practices">>
    [] intentType = "security"  -> <<"security best practices ">> \o yr \o <<" OWASP">>
    [] intentType = "deploy"    -> <<"deployment patterns ">> \o yr \o <<" production">>
    [] intentType = "refactor"  -> <<"refactoring patterns ">> \o yr \o <<" clean code">>
    [] OTHER                    -> <<"latest patterns ">> \o yr

(***************************************************************************)
(* verification.go: the four verdict functions                             *)
(***************************************************************************)
\* Mutant: the refactor bucket is applied after the security bucket.
AnalyzeIntent_RefactorLast(p, agents) ==
  LET promptLower == ToLower(p)
      a0 == [Type |-> "general", Confidence |-> 50, RequiredSkills |-> <<>>,
             RequiredAgents |-> <<>>, RequiresResearch |-> FALSE,
             Complexity |-> "simple", RiskLevel |-> "low"]
      a1 == IF containsAny(promptLower, implementKeywords)
            THEN [a0 EXCEPT !.Type = "implement", !.RequiresResearch = TRUE,
                            !.Complexity = "moderate", !.Confidence = 80]
            ELSE a0
      a2 == IF containsAny(promptLower, debugKeywords)
            THEN [a1 EXCEPT !.Type = "debug",
                            !.RequiredSkills = Append(@, "debug-like-expert"),
                            !.Complexity = "moderate", !.Confidence = 85]
            ELSE a1
      a3 == IF containsAny(promptLower, deployKeywords)
            THEN [a2 EXCEPT !.Type = "deploy",
                            !.RequiredSkills = Append(@, "cloud-infrastructure-mastery"),
                            !.RiskLevel = "high", !.Complexity = "complex",
                            !.Confidence = 90, !.RequiresResearch = TRUE]
            ELSE a2
      a4 == IF containsAny(promptLower, securityKeywords)
            THEN [a3 EXCEPT !.Type = "security",
                            !.RequiredSkills = Append(@, "security"),
                            !.RiskLevel = "high", !.RequiresResearch = TRUE,
                            !.Confidence = 85]
            ELSE a3
      a5 == IF containsAny(promptLower, refactorKeywords)
            THEN [a4 EXCEPT !.Type = "refactor", !.RequiresResearch = TRUE,
                            !.Complexity = "complex", !.RiskLevel = "medium",
                            !.Confidence = 80]
            ELSE a4
      a6 == IF containsAny(promptLower, destructiveKeywords)
            THEN [a5 EXCEPT !.RiskLevel = "critical", !.Complexity = "complex"]
            ELSE a5
  IN [a6 EXCEPT !.RequiredAgents = agents]

\* agents is the result of extractAgents(promptLower) the run produced.
AnalyzeIntent(p, agents) ==
  LET promptLower == ToLower(p)
      a0 == [Type |-> "general", Confidence |-> 50, RequiredSkills |-> <<>>,
             RequiredAgents |-> <<>>, RequiresResearch |-> FALSE,
             Complexity |-> "simple", RiskLevel |-> "low"]
      a1 == IF containsAny(promptLower, implementKeywords)
            THEN [a0 EXCEPT !.Type = "implement", !.RequiresResearch = TRUE,
                            !.Complexity = "moderate", !.Confidence = 80]
            ELSE a0
      a2 == IF containsAny(promptLower, debugKeywords)
            THEN [a1 EXCEPT !.Type = "debug",
                            !.RequiredSkills = Append(@, "debug-like-expert"),
                            !.Complexity = "moderate", !.Confidence = 85]
            ELSE a1
      a3 == IF containsAny(promptLower, refactorKeywords)
            THEN [a2 EXCEPT !.Type = "refactor", !.RequiresResearch = TRUE,
                            !.Complexity = "complex", !.RiskLevel = "medium",
                            !.Confidence = 80]
            ELSE a2
      a4 == IF containsAny(promptLower, deployKeywords)
            THEN [a3 EXCEPT !.Type = "deploy",
                            !.RequiredSkills = Append(@, "cloud-infrastructure-mastery"),
                            !.RiskLevel = "high", !.Complexity = "complex",
                            !.Confidence = 90, !.RequiresResearch = TRUE]
            ELSE a3
      a5 == IF containsAny(promptLower, securityKeywords)
            THEN [a4 EXCEPT !.Type = "security",
                            !.RequiredSkills = Append(@, "security"),
                            !.RiskLevel = "high", !.RequiresResearch = TRUE,
                            !.Confidence = 85]
            ELSE a4
      a6 == IF containsAny(promptLower, destructiveKeywords)
            THEN [a5 EXCEPT !.RiskLevel = "critical", !.Complexity = "complex"]
            ELSE a5
  IN [a6 EXCEPT !.RequiredAgents = agents]

taskBreakdown ==
  <<"1. Research current patterns", "2. Create implementation plan",
    "3. Implement with verification", "4. Test and validate">>

\* Mutant: the Task tool is not required to carry an agent type.
CEOValidate_NoTaskCheck(intent, toolName, agentType) ==
  [Approved |-> TRUE, DelegationPlan |-> "", AssignedAgents |-> <<>>,
   TaskBreakdown |-> <<>>, Blockers |-> <<>>,
   Warnings |-> IF intent # Nil /\ intent.RiskLevel = "critical"
                THEN << <<"CRITICAL risk level - verify user intent before proceeding">> >>
                ELSE <<>>]

\* Mutant: the test of the agent against the suggested agents is inverted.
CEOValidate_WarnIfSuggested(intent, toolName, agentType) ==
  LET d0 == [Approved |-> TRUE, DelegationPlan |-> "", AssignedAgents |-> <<>>,
             TaskBreakdown |-> <<>>, Blockers |-> <<>>, Warnings |-> <<>>]
      d1 == IF /\ intent # Nil
               /\ Len(intent.RequiredAgents) > 0
               /\ agentType # ""
               /\ containsString(intent.RequiredAgents, agentType)
            THEN [d0 EXCEPT !.Warnings = Append(@,
                    <<"Agent '", agentType, "' may not be optimal for intent '",
                      intent.Type, "'">>)]
            ELSE d0
      d2 == IF intent # Nil /\ intent.RiskLevel = "critical"
            THEN [d1 EXCEPT !.Warnings = Append(@,
                    <<"CRITICAL risk level - verify user intent before proceeding">>)]
            ELSE d1
      d3 == IF intent # Nil /\ intent.Complexity = "complex"
            THEN [d2 EXCEPT !.DelegationPlan = "Complex task - recommend task breakdown",
                            !.TaskBreakdown = taskBreakdown]
            ELSE d2
  IN IF toolName = "Task" /\ agentType = ""
     THEN [d0 EXCEPT !.Approved = FALSE,
                     !.Blockers = Append(@, <<"Task requires subagent_type">>)]
     ELSE d3

CEOValidate(intent, toolName, agentType) ==
  LET d0 == [Approved |-> TRUE, DelegationPlan |-> "", AssignedAgents |-> <<>>,
             TaskBreakdown |-> <<>>, Blockers |-> <<>>, Warnings |-> <<>>]
      d1 == IF /\ intent # Nil
               /\ Len(intent.RequiredAgents) > 0
               /\ agentType # ""
               /\ ~containsString(intent.RequiredAgents, agentType)
            THEN [d0 EXCEPT !.Warnings = Append(@,
                    <<"Agent '", agentType, "' may not be optimal for intent '",
                      intent.Type, "'">>)]
            ELSE d0
      d2 == IF intent # Nil /\ intent.RiskLevel = "critical"
            THEN [d1 EXCEPT !.Warnings = Append(@,
                    <<"CRITICAL risk level - verify user intent before proceeding">>)]
            ELSE d1
      d3 == IF intent # Nil /\ intent.Complexity = "complex"
            THEN [d2 EXCEPT !.DelegationPlan = "Complex task - recommend task breakdown",
                            !.TaskBreakdown = taskBreakdown]
            ELSE d2
  IN IF toolName = "Task" /\ agentType = ""
     THEN [d0 EXCEPT !.Approved = FALSE,
                     !.Blockers = Append(@, <<"Task requires subagent_type">>)]
     ELSE d3

\* toolInput[k] is [ok, v]: ok is the result of the type assertion .(string).
AegisVerify(intent, toolName, toolInput, yr) ==
  LET v0 == [Passed |-> TRUE, SecurityScore |-> 100, ThreatLevel |-> "none",
             ViolationsFound |-> <<>>, Recommendations |-> <<>>,
             MemoryProvenance |-> <<>>]
      v1 == IF /\ toolName = "Bash"
               /\ toolInput.command.ok
               /\ isDangerousCommand(toolInput.command.v)
            THEN [v0 EXCEPT !.Passed = FALSE, !.ThreatLevel = "high",
                            !.SecurityScore = 0,
                            !.ViolationsFound = Append(@, <<"Dangerous command pattern detected">>)]
            ELSE v0
      v2 == IF /\ toolName \in {"Read", "Write", "Edit"}
               /\ toolInput.file_path.ok
               /\ isSensitivePath(toolInput.file_path.v)
            THEN [v1 EXCEPT !.Passed = FALSE, !.ThreatLevel = "high",
                            !.SecurityScore = 0,
                            !.ViolationsFound = Append(@,
                               <<"Sensitive file access: ">> \o toolInput.file_path.v)]
            ELSE v1
      oldStr == IF toolInput.old_string.ok THEN toolInput.old_string.v ELSE <<>>
      newStr == IF toolInput.new_string.ok THEN toolInput.new_string.v ELSE <<>>
      v3 == IF toolName = "Edit" /\ isProblematicEdit(oldStr, newStr)
            THEN [v2 EXCEPT !.Passed = FALSE, !.ThreatLevel = "medium",
                            !.SecurityScore = 30,
                            !.ViolationsFound = Append(@,
                               <<"Suspicious code removal pattern - verify intent">>)]
            ELSE v2
  IN [v3 EXCEPT !.MemoryProvenance = <<"chain_verification:">> \o yr \o <<"-<RFC3339 rest>">>]

ResearchCheck(intent, researchDone, p, yr) ==
  LET s0 == [Done |-> researchDone, Sources |-> <<>>, SuggestedQuery |-> <<>>,
             Bypass |-> FALSE, BypassReason |-> <<>>]
      promptLower == ToLower(p)
      hits == {i \in 1..Len(bypassPatterns) : Contains(promptLower, bypassPatterns[i])}
  IN IF hits # {}
     THEN LET first == CHOOSE i \in hits : \A j \in hits : i <= j
          IN [s0 EXCEPT !.Bypass = TRUE,
                        !.BypassReason = <<"Trivial change: ">> \o bypassPatterns[first]]
     ELSE IF intent # Nil /\ intent.RequiresResearch /\ ~researchDone
          THEN [s0 EXCEPT !.Done = FALSE,
                          !.SuggestedQuery = buildSearchQuery(intent.Type, yr)]
          ELSE s0

(***************************************************************************)
(* verification.go (runner): the gates as the Runner applies them          *)
(***************************************************************************)
\* fmt.Sprintf("%.2f", x) of a score kept in hundredths
Fmt2(n) == <<ToString(n \div 100), ".", ToString((n % 100) \div 10), ToString(n % 10)>>

\* VerificationResult; Timestamp (time.Now() in AddResult) is not kept.
NewResult(gate, status, reason) ==
  [Gate |-> gate, Status |-> status, Reason |-> reason, Context |-> Nil,
   NextAction |-> <<>>]

\* Mutant: the confidence threshold of the Intent block is 0.5, not 0.7.
runIntentGate_Threshold(c, p, agents) ==
  LET intent == AnalyzeIntent(p, agents)
      blocked == intent.RiskLevel = "critical" /\ intent.Confidence < 50
  IN AddResult([c EXCEPT !.Intent = intent],
               NewResult("INTENT", IF blocked THEN "block" ELSE "pass", <<"type=", intent.Type>>))

\* Mutant: a critical-risk prompt is blocked unless its confidence is above
\* 0.8.
runIntentGate_Strict(c, p, agents) ==
  LET intent == AnalyzeIntent(p, agents)
      blocked == intent.RiskLevel = "critical" /\ intent.Confidence <= 80
  IN AddResult([c EXCEPT !.Intent = intent],
               NewResult("INTENT", IF blocked THEN "block" ELSE "pass", <<"type=", intent.Type>>))

runIntentGate(c, p, agents) ==
  LET intent == AnalyzeIntent(p, agents)
      r0 == [NewResult("INTENT", "pass",
                       <<"type=", intent.Type, " confidence=">> \o Fmt2(intent.Confidence)
                         \o <<" risk=", intent.RiskLevel>>)
               EXCEPT !.Context = [type |-> intent.Type,
                                   complexity |-> intent.Complexity,
                                   risk_level |-> intent.RiskLevel]]
      r1 == IF intent.RiskLevel = "critical" /\ intent.Confidence < 70
            THEN [r0 EXCEPT !.Status = "block",
                            !.Reason = <<"Critical risk with low confidence - requires explicit verification">>,
                            !.NextAction = <<"Clarify user intent before proceeding">>]
            ELSE r0
  IN AddResult([c EXCEPT !.Intent = intent], r1)

runCEOGate(c, toolName, agentType) ==
  LET ceo == CEOValidate(c.Intent, toolName, agentType)
      r0 == NewResult("CEO", "pass", <<"Delegation strategy validated">>)
      r1 == IF ~ceo.Approved
            THEN [r0 EXCEPT !.Status = "block",
                            !.Reason = IF Len(ceo.Blockers) > 0 THEN ceo.Blockers[1] ELSE @,
                            !.NextAction = <<"Provide required parameters or clarify task">>]
            ELSE IF Len(ceo.Warnings) > 0
                 THEN [r0 EXCEPT !.Status = "warn", !.Reason = ceo.Warnings[1]]
                 ELSE r0
      r2 == IF ceo.DelegationPlan # ""
            THEN [r1 EXCEPT !.Context = [plan |-> ceo.DelegationPlan]]
            ELSE r1
  IN AddResult([c EXCEPT !.CEO = ceo], r2)

\* Mutant: a failed security verdict also raises the risk of the Intent record.
runAegisGate_TouchIntent(c, toolName, toolInput, yr) ==
  LET aegis == AegisVerify(c.Intent, toolName, toolInput, yr)
  IN AddResult([c EXCEPT !.Aegis = aegis,
                         !.Intent.RiskLevel = IF aegis.Passed THEN @ ELSE "critical"],
               NewResult("AEGIS", IF aegis.Passed THEN "pass" ELSE "block",
                         <<"threat=", aegis.ThreatLevel>>))

runAegisGate(c, toolName, toolInput, yr) ==
  LET aegis == AegisVerify(c.Intent, toolName, toolInput, yr)
      ctx0 == [threat_level |-> aegis.ThreatLevel,
               security_score |-> Fmt2(aegis.SecurityScore)]
      r0 == [NewResult("AEGIS", "pass",
                       <<"security_score=">> \o Fmt2(aegis.SecurityScore)
                         \o <<" threat=", aegis.ThreatLevel>>)
               EXCEPT !.Context = ctx0]
      r1 == IF ~aegis.Passed
            THEN [r0 EXCEPT !.Status = "block",
                            !.Reason = IF Len(aegis.ViolationsFound) > 0
                                       THEN aegis.ViolationsFound[1] ELSE @,
                            !.NextAction = <<"Address security violations before proceeding">>]
            ELSE r0
      r2 == IF Len(aegis.Recommendations) > 0
            THEN [r1 EXCEPT !.Context = @ @@ ("recommendations" :> aegis.Recommendations[1])]
            ELSE r1
  IN AddResult([c EXCEPT !.Aegis = aegis], r2)

\* Mutant: the negation of research.Done is dropped from the block condition.
runResearchGate_NoNegation(c, researchDone, p, yr) ==
  LET research == ResearchCheck(c.Intent, researchDone, p, yr)
      blocked == ~research.Bypass /\ research.Done /\ c.Intent.RequiresResearch
  IN AddResult([c EXCEPT !.Research = research],
               NewResult("RESEARCH", IF blocked THEN "block" ELSE "pass",
                         <<"TABULA_RASA">>))

\* Mutant: research is demanded whenever the intent requires it, done or not.
runResearchGate_Strict(c, researchDone, p, yr) ==
  LET research == ResearchCheck(c.Intent, researchDone, p, yr)
      blocked == ~research.Bypass /\ c.Intent.RequiresResearch
      r0 == NewResult("RESEARCH", IF blocked THEN "block" ELSE "pass", <<"TABULA_RASA">>)
  IN AddResult([c EXCEPT !.Research = research],
               IF blocked
               THEN [r0 EXCEPT !.NextAction = <<"WebSearch: ">> \o research.SuggestedQuery,
                               !.Context = [suggested_query |-> research.SuggestedQuery]]
               ELSE r0)

runResearchGate(c, researchDone, p, yr) ==
  LET research == ResearchCheck(c.Intent, researchDone, p, yr)
      r0 == NewResult("RESEARCH", "pass", <<"TABULA_RASA compliance verified">>)
      r1 == IF ~research.Done /\ c.Intent # Nil /\ c.Intent.RequiresResearch
            THEN LET b == [r0 EXCEPT !.Status = "block",
                                     !.Reason = <<"TABULA_RASA: Research required before ",
                                                  c.Intent.Type>>]
                 IN IF research.SuggestedQuery # <<>>
                    THEN [b EXCEPT !.NextAction = <<"WebSearch: ">> \o research.SuggestedQuery,
                                   !.Context = [suggested_query |-> research.SuggestedQuery]]
                    ELSE b
            ELSE r0
  IN IF research.Bypass
     THEN AddResult([c EXCEPT !.Research = research],
                    [r0 EXCEPT !.Reason = <<"Bypassed: ">> \o research.BypassReason])
     ELSE AddResult([c EXCEPT !.Research = research], r1)

RECURSIVE toonResults(_)
toonResults(results) ==
  IF results = <<>> THEN <<>>
  ELSE LET r == Head(results)
       IN <<"[", r.Gate, "]\n", "status: ", r.Status, "\n", "reason: ">> \o r.Reason
            \o <<"\n">>
            \o (IF r.NextAction # <<>>
                THEN <<"next_action: ">> \o r.NextAction \o <<"\n">> ELSE <<>>)
            \o <<"\n">> \o toonResults(Tail(results))

ToTOON(c, yr) ==
  <<"[VERIFICATION_CHAIN]\n", "session: ", c.SessionID, "\n",
    "status: ", c.FinalStatus, "\n", "timestamp: ">> \o yr \o <<"-<RFC3339 rest>", "\n", "\n">>
    \o toonResults(c.Results)

(***************************************************************************)
(* hook.go / chain.go: the envelope and the prompt                         *)
(***************************************************************************)
Str(v) == [ok |-> TRUE, v |-> v]

NoStr == [ok |-> FALSE, v |-> <<>>]

NoInput ==
  [command |-> NoStr, file_path |-> NoStr, old_string |-> NoStr, new_string |-> NoStr,
   subagent_type |-> [ok |-> FALSE, v |-> ""], prompt |-> NoStr, content |-> NoStr,
   description |-> NoStr]

GetString(h, key) ==
  IF key = "prompt" /\ h.Prompt # <<>> THEN h.Prompt
  ELSE IF h.ToolInput[key].ok THEN h.ToolInput[key].v ELSE <<>>

getPromptFromInput(h) ==
  IF h.Prompt # <<>> THEN h.Prompt
  ELSE IF GetString(h, "prompt") # <<>> THEN GetString(h, "prompt")
  ELSE IF GetString(h, "content") # <<>> THEN GetString(h, "content")
  ELSE IF GetString(h, "command") # <<>> THEN GetString(h, "command")
  ELSE IF GetString(h, "description") # <<>> THEN GetString(h, "description")
  ELSE <<>>

\* agentType as RunFull extracts it from toolInput["subagent_type"].(string)
agentTypeOf(toolInput) ==
  IF toolInput.subagent_type.ok THEN toolInput.subagent_type.v ELSE ""

(***************************************************************************)
(* inputs the hook is driven with                                          *)
(***************************************************************************)
Txt_Long == Repeat(<<"x">>, 101)

Prompts ==
  {<<>>, P_DeleteEtc, P_Webhook, P_FixTypo, P_Deploy, P_DropAuth, P_Hello,
   P_PlanTest, P_Purge}

Bash(cmd) == [ToolName |-> "Bash", ToolInput |-> [NoInput EXCEPT !.command = Str(cmd)]]

Read(path) == [ToolName |-> "Read", ToolInput |-> [NoInput EXCEPT !.file_path = Str(path)]]

Write(path, content) ==
  [ToolName |-> "Write",
   ToolInput |-> [NoInput EXCEPT !.file_path = Str(path), !.content = Str(content)]]

Edit(path, old, new) ==
  [ToolName |-> "Edit",
   ToolInput |-> [NoInput EXCEPT !.file_path = Str(path), !.old_string = Str(old),
                                 !.new_string = Str(new)]]

Task(agent, p) ==
  [ToolName |-> "Task",
   ToolInput |-> [NoInput EXCEPT !.subagent_type = agent, !.prompt = Str(p)]]

ToolCalls ==
  {[ToolName |-> "", ToolInput |-> NoInput],
   Bash(Cmd_CurlUrlBash), Bash(Cmd_CurlBash), Bash(Cmd_RmRf), Bash(Cmd_Ls),
   [ToolName |-> "Bash", ToolInput |-> NoInput],
   Read(Path_Src), Read(Path_Passwd), Read(Path_Key),
   Write(Path_Src, Txt_Code), Write(Path_Src, P_Webhook), Write(Path_Ssh, Txt_Code),
   Write(Path_Src, Txt_Format),
   [ToolName |-> "Write", ToolInput |-> [NoInput EXCEPT !.content = Str(P_Webhook)]],
   Edit(Path_Src, Txt_Code, Txt_LongCode), Edit(Path_Src, Txt_Todo, Txt_Code),
   Edit(Path_Src, Txt_Todo, Txt_Stub2), Edit(Path_Src, Txt_Long, Txt_Blank),
   Edit(Path_Src, Txt_Code, Txt_Blank),
   Edit(Path_Passwd, Txt_Code, Txt_LongCode), Edit(Path_Passwd, Txt_Todo, <<>>),
   Edit(Path_Key, Txt_Long, Txt_Blank),
   [ToolName |-> "Edit", ToolInput |-> [NoInput EXCEPT !.file_path = Str(Path_Ssh)]],
   Task([ok |-> FALSE, v |-> ""], P_Webhook), Task([ok |-> TRUE, v |-> ""], P_Webhook),
   Task([ok |-> TRUE, v |-> "backend-engineer"], P_Deploy),
   Task([ok |-> TRUE, v |-> "Explore"], P_Deploy),
   Task([ok |-> TRUE, v |-> "Plan"], P_DeleteEtc),
   Task([ok |-> FALSE, v |-> ""], P_Hello)}

HookInputs ==
  {[Prompt |-> p, ToolName |-> t.ToolName, ToolInput |-> t.ToolInput] :
     p \in Prompts, t \in ToolCalls}

Years == {<<"2", "0", "2", "6">>, <<"2", "0", "2", "7">>}

SessionIDs == {"s1"}

\* The memory of a process that has not read an envelope.
NoHookInput == [Prompt |-> <<>>, ToolName |-> "", ToolInput |-> NoInput]

NoOutput ==
  [kind |-> "none", HookEventName |-> "", PermissionDecision |-> "",
   PermissionDecisionReason |-> <<>>, AdditionalContext |-> <<>>]

HelpOutput == [NoOutput EXCEPT !.kind = "help"]

(***************************************************************************)
(* dag/types.go, dag/graph.go: the DAG state and its node algebra          *)
(*                                                                         *)
(* Nodes is a map from node id to *Node; a Node keeps the fields the graph *)
(* operations read or write (ID, Status, DependsOn, Blocks, Level).        *)
(***************************************************************************)
StatusPending == "pending"

StatusReady == "ready"

StatusDispatched == "dispatched"

StatusRunning == "running"

StatusDone == "done"

StatusFailed == "failed"

StatusSkipped == "skipped"

NodeStatuses ==
  {StatusPending, StatusReady, StatusDispatched, StatusRunning, StatusDone,
   StatusFailed, StatusSkipped}

IsTerminal(s) == s = StatusDone \/ s = StatusFailed \/ s = StatusSkipped

DAGActive == "active"

DAGComplete == "complete"

DAGFailed == "failed"

\* A Node literal as the callers of AddNode build it: no edges, Level 0, the
\* fields the literal does not name at their zero values (nil for Metadata).
NewNode(id, status) ==
  [ID |-> id, Subject |-> "", Description |-> "", Agent |-> "", Skill |-> "",
   Status |-> status, DependsOn |-> <<>>, Blocks |-> <<>>, Level |-> 0,
   TaskID |-> "", Metadata |-> Nil]

\* The id is "kv-" and six hex digits of a hash of prompt and clock.
NewDAGState(sessionID, rootPrompt) ==
  [ID |-> "kv-<hash>", SessionID |-> sessionID, RootPrompt |-> rootPrompt,
   Nodes |-> <<>>, MaxLevel |-> 0, Status |-> DAGActive]

NodeIdsOf(s) == DOMAIN s.Nodes

\* s.Nodes[id] = n
PutNode(s, id, n) ==
  [s EXCEPT !.Nodes = [k \in (DOMAIN s.Nodes) \cup {id} |-> IF k = id THEN n ELSE s.Nodes[k]]]

\* Mutant: an empty DAG counts as complete.
IsComplete_EmptyTrue(s) == \A id \in NodeIdsOf(s) : IsTerminal(s.Nodes[id].Status)

IsComplete(s) ==
  IF \E id \in NodeIdsOf(s) : ~IsTerminal(s.Nodes[id].Status)
  THEN FALSE
  ELSE Cardinality(NodeIdsOf(s)) > 0

\* Mutant: a duplicate id is reported but the node is stored all the same.
AddNode_Overwrite(s, n) ==
  IF n.ID \in NodeIdsOf(s)
  THEN [err |-> "duplicate node", s |-> PutNode(s, n.ID, n)]
  ELSE [err |-> "",
        s |-> PutNode(s, n.ID, IF n.Status = "" THEN [n EXCEPT !.Status = StatusPending] ELSE n)]

\* Result of AddNode / AddEdge: the error ("" for nil) and the state left.
AddNode(s, n) ==
  IF n.ID \in NodeIdsOf(s)
  THEN [err |-> "duplicate node", s |-> s]
  ELSE [err |-> "",
        s |-> PutNode(s, n.ID, IF n.Status = "" THEN [n EXCEPT !.Status = StatusPending] ELSE n)]

RECURSIVE hasPath(_, _, _, _)
RECURSIVE hasPathFrom(_, _, _, _, _)
\* Mutant: the search does not look a node up in the visited map.
hasPath_Unmarked(s, from, to, visited) ==
  IF from = to THEN [found |-> TRUE, visited |-> visited]
  ELSE IF from \notin NodeIdsOf(s) THEN [found |-> FALSE, visited |-> Append(visited, from)]
  ELSE hasPathFrom(s, s.Nodes[from].Blocks, 1, to, Append(visited, from))

\* The depth-first search of AddEdge; visited is the map shared by all calls,
\* kept as the sequence of the keys in the order they were set. Returns
\* whether a path was found and the visited map it leaves.
hasPath(s, from, to, visited) ==
  IF from = to THEN [found |-> TRUE, visited |-> visited]
  ELSE IF \E i \in 1..Len(visited) : visited[i] = from
  THEN [found |-> FALSE, visited |-> visited]
  ELSE IF from \notin NodeIdsOf(s) THEN [found |-> FALSE, visited |-> Append(visited, from)]
  ELSE hasPathFrom(s, s.Nodes[from].Blocks, 1, to, Append(visited, from))

\* for _, blocked := range node.Blocks, from index i on
hasPathFrom(s, blocks, i, to, visited) ==
  IF i > Len(blocks) THEN [found |-> FALSE, visited |-> visited]
  ELSE LET r == hasPath(s, blocks[i], to, visited)
       IN IF r.found THEN r ELSE hasPathFrom(s, blocks, i + 1, to, r.visited)

\* Mutant: the cycle check looks for a path from depID to nodeID.
AddEdge_WrongDirection(s, depID, nodeID) ==
  IF depID \notin NodeIdsOf(s) \/ nodeID \notin NodeIdsOf(s)
  THEN [err |-> "node not found", s |-> s]
  ELSE IF hasPath(s, depID, nodeID, <<>>).found
  THEN [err |-> "cycle detected", s |-> s]
  ELSE [err |-> "",
        s |-> [s EXCEPT !.Nodes[nodeID].DependsOn = Append(@, depID),
                        !.Nodes[depID].Blocks = Append(@, nodeID)]]

\* Mutant: every edge between existing nodes is accepted.
AddEdge_NoCycleCheck(s, depID, nodeID) ==
  IF depID \notin NodeIdsOf(s) \/ nodeID \notin NodeIdsOf(s)
  THEN [err |-> "node not found", s |-> s]
  ELSE [err |-> "",
        s |-> [s EXCEPT !.Nodes[nodeID].DependsOn = Append(@, depID),
                        !.Nodes[depID].Blocks = Append(@, nodeID)]]

\* Mutant: the reverse adjacency list is not written.
AddEdge_NoBlocks(s, depID, nodeID) ==
  IF depID \notin NodeIdsOf(s) \/ nodeID \notin NodeIdsOf(s)
  THEN [err |-> "node not found", s |-> s]
  ELSE IF hasPath(s, nodeID, depID, <<>>).found
  THEN [err |-> "cycle detected", s |-> s]
  ELSE [err |-> "", s |-> [s EXCEPT !.Nodes[nodeID].DependsOn = Append(@, depID)]]

AddEdge(s, depID, nodeID) ==
  IF depID \notin NodeIdsOf(s) THEN [err |-> "node not found", s |-> s]
  ELSE IF nodeID \notin NodeIdsOf(s) THEN [err |-> "node not found", s |-> s]
  ELSE IF hasPath(s, nodeID, depID, <<>>).found
  THEN [err |-> "cycle detected", s |-> s]
  ELSE [err |-> "",
        s |-> [s EXCEPT !.Nodes[nodeID].DependsOn = Append(@, depID),
                        !.Nodes[depID].Blocks = Append(@, nodeID)]]

\* Mutant: a child is promoted as soon as every dependency is terminal.
checkReady_AnyTerminal(s, id) ==
  IF id \notin NodeIdsOf(s) \/ IsTerminal(s.Nodes[id].Status) THEN s
  ELSE IF \E i \in 1..Len(s.Nodes[id].DependsOn) :
            ~IsTerminal(s.Nodes[s.Nodes[id].DependsOn[i]].Status)
  THEN s
  ELSE [s EXCEPT !.Nodes[id].Status = StatusReady]

\* Mutant: a terminal child is promoted as well.
checkReady_PromoteTerminal(s, id) ==
  IF id \notin NodeIdsOf(s) THEN s
  ELSE IF \E i \in 1..Len(s.Nodes[id].DependsOn) :
            LET depID == s.Nodes[id].DependsOn[i]
            IN depID \notin NodeIdsOf(s) \/ s.Nodes[depID].Status # StatusDone
  THEN s
  ELSE [s EXCEPT !.Nodes[id].Status = StatusReady]

checkReady(s, id) ==
  IF id \notin NodeIdsOf(s) \/ IsTerminal(s.Nodes[id].Status) THEN s
  ELSE IF \E i \in 1..Len(s.Nodes[id].DependsOn) :
            LET depID == s.Nodes[id].DependsOn[i]
            IN \/ depID \notin NodeIdsOf(s)
               \/ ~IsTerminal(s.Nodes[depID].Status)
               \/ s.Nodes[depID].Status # StatusDone
  THEN s
  ELSE [s EXCEPT !.Nodes[id].Status = StatusReady]

RECURSIVE propagateSkip(_, _)
RECURSIVE propagateSkipAll(_, _, _)
\* Mutant: only the direct children are skipped.
propagateSkip_ChildrenOnly(s, id) ==
  IF id \notin NodeIdsOf(s) \/ IsTerminal(s.Nodes[id].Status) THEN s
  ELSE [s EXCEPT !.Nodes[id].Status = StatusSkipped]

\* Mutant: a terminal node in the subtree is skipped as well.
propagateSkip_OverTerminal(s, id) ==
  IF id \notin NodeIdsOf(s) THEN s
  ELSE propagateSkipAll([s EXCEPT !.Nodes[id].Status = StatusSkipped],
                        s.Nodes[id].Blocks, 1)

propagateSkip(s, id) ==
  IF id \notin NodeIdsOf(s) \/ IsTerminal(s.Nodes[id].Status) THEN s
  ELSE propagateSkipAll([s EXCEPT !.Nodes[id].Status = StatusSkipped],
                        s.Nodes[id].Blocks, 1)

\* for _, blockedID := range blocks { s.propagateSkip(blockedID) }, from index i on
propagateSkipAll(s, blocks, i) ==
  IF i > Len(blocks) THEN s
  ELSE propagateSkipAll(propagateSkip(s, blocks[i]), blocks, i + 1)

RECURSIVE skipTrace(_, _)
RECURSIVE skipTraceAll(_, _, _)
\* propagateSkip with the nodes it writes listed in the order of the writes:
\* r is the state and the list so far.
skipTrace(r, id) ==
  IF id \notin NodeIdsOf(r.s) \/ IsTerminal(r.s.Nodes[id].Status) THEN r
  ELSE skipTraceAll([s |-> [r.s EXCEPT !.Nodes[id].Status = StatusSkipped],
                     marked |-> Append(r.marked, id)],
                    r.s.Nodes[id].Blocks, 1)

skipTraceAll(r, blocks, i) ==
  IF i > Len(blocks) THEN r
  ELSE skipTraceAll(skipTrace(r, blocks[i]), blocks, i + 1)

RECURSIVE checkReadyAll(_, _, _)
\* for _, blockedID := range blocks { s.checkReady(blockedID) }, from index i on
checkReadyAll(s, blocks, i) ==
  IF i > Len(blocks) THEN s
  ELSE checkReadyAll(checkReady(s, blocks[i]), blocks, i + 1)

\* Lines 214-223: the overall status after the node statuses are settled.
updateDAGStatus(s) ==
  IF IsComplete(s)
  THEN IF \E id \in NodeIdsOf(s) : s.Nodes[id].Status \in {StatusFailed, StatusSkipped}
       THEN [s EXCEPT !.Status = DAGFailed]
       ELSE [s EXCEPT !.Status = DAGComplete]
  ELSE s

UpdateNodeStatus(s, id, status) ==
  IF id \notin NodeIdsOf(s) THEN s
  ELSE LET s1 == [s EXCEPT !.Nodes[id].Status = status]
           s2 == IF status = StatusDone
                 THEN checkReadyAll(s1, s1.Nodes[id].Blocks, 1) ELSE s1
           s3 == IF status = StatusFailed
                 THEN propagateSkipAll(s2, s2.Nodes[id].Blocks, 1) ELSE s2
       IN updateDAGStatus(s3)

ReadyNodes(s) == {id \in NodeIdsOf(s) : s.Nodes[id].Status = StatusReady}

(***************************************************************************)
(* dag/topo.go: Kahn levelization                                          *)
(***************************************************************************)
\* All orderings of a finite set: the orders a range over a Go map can take.
Orderings(S) ==
  LET n == Cardinality(S)
  IN {f \in [1..n -> S] : \A a, b \in 1..n : a # b => f[a] # f[b]}

RECURSIVE topoBlocked_AlwaysEnqueue(_, _, _)
\* Mutant: a child is queued at every decrement, not when its in-degree hits 0.
topoBlocked_AlwaysEnqueue(t, blocks, i) ==
  IF i > Len(blocks) THEN t
  ELSE topoBlocked_AlwaysEnqueue(
         [t EXCEPT !.inDeg[blocks[i]] = @ - 1, !.nextQueue = Append(@, blocks[i])],
         blocks, i + 1)

RECURSIVE topoBlocked(_, _, _)
\* for _, blockedID := range node.Blocks, from index i on
topoBlocked(t, blocks, i) ==
  IF i > Len(blocks) THEN t
  ELSE LET b == blocks[i]
           d == t.inDeg[b] - 1
       IN topoBlocked([t EXCEPT !.inDeg[b] = d,
                                !.nextQueue = IF d = 0 THEN Append(@, b) ELSE @],
                      blocks, i + 1)

RECURSIVE topoQueue(_, _, _, _)
\* Mutant: the level written to a node counts its place in the queue.
topoQueue_ByPlace(t, queue, i, lvl) ==
  IF i > Len(queue) THEN t
  ELSE LET id == queue[i]
           t1 == [t EXCEPT !.s.Nodes[id].Level = lvl + i - 1,
                           !.level = Append(@, id),
                           !.processed = @ + 1]
       IN topoQueue(topoBlocked(t1, t1.s.Nodes[id].Blocks, 1), queue, i + 1, lvl)

\* for _, id := range queue, from index i on, filling level number lvl
topoQueue(t, queue, i, lvl) ==
  IF i > Len(queue) THEN t
  ELSE LET id == queue[i]
           t1 == [t EXCEPT !.s.Nodes[id].Level = lvl,
                           !.level = Append(@, id),
                           !.processed = @ + 1]
       IN topoQueue(topoBlocked(t1, t1.s.Nodes[id].Blocks, 1), queue, i + 1, lvl)

RECURSIVE topoWaves(_, _)
\* for len(queue) > 0
topoWaves(t, queue) ==
  IF Len(queue) = 0 THEN t
  ELSE LET t1 == topoQueue([t EXCEPT !.level = <<>>, !.nextQueue = <<>>],
                           queue, 1, Len(t.levels))
           t2 == [t1 EXCEPT !.levels = Append(@, [Level |-> Len(t.levels), Nodes |-> t1.level])]
       IN topoWaves(t2, t2.nextQueue)

\* seed is the order in which the range over inDeg yields the zero in-degree
\* nodes. Returns the levels, the error ("" for nil) and the state left.
TopoLevels(s, seed) ==
  LET inDeg == [id \in NodeIdsOf(s) |-> Len(s.Nodes[id].DependsOn)]
      t == topoWaves([s |-> s, inDeg |-> inDeg, levels |-> <<>>, level |-> <<>>,
                      nextQueue |-> <<>>, processed |-> 0], seed)
  IN IF t.processed # Cardinality(NodeIdsOf(s))
     THEN [err |-> "cycle detected", s |-> t.s, levels |-> <<>>]
     ELSE [err |-> "", s |-> [t.s EXCEPT !.MaxLevel = Len(t.levels) - 1],
           levels |-> t.levels]

\* The seeds a run of TopoLevels can start from.
TopoSeeds(s) == Orderings({id \in NodeIdsOf(s) : Len(s.Nodes[id].DependsOn) = 0})

\* The last scheduler call: its name, arguments, returned error and levels.
NoLevels == <<>>

DagOp(op, a, b, status, err, levels) ==
  [op |-> op, a |-> a, b |-> b, status |-> status, err |-> err, levels |-> levels]

(***************************************************************************)
(* subagent.go: the SubagentStart / SubagentStop gate                      *)
(*                                                                         *)
(* The hook package's Exit functions write one decision and end the        *)
(* process; the decision is kept as a record.                              *)
(***************************************************************************)
builtins ==
  <<"Bash", "Explore", "Plan", "general-purpose", "code-simplifier", "statusline-setup">>

isBuiltinAgent(agent) == \E i \in 1..Len(builtins) : agent = builtins[i]

\* The agent definitions the loader finds on disk.
ValidAgents == {"backend-engineer", "security-engineer", "qa-lead"}

IsValidAgent(agent) == agent \in ValidAgents

\* The agent types that implement: one of them has no definition on disk.
EngineerAgents == {"backend-engineer", "security-engineer", "ghost-engineer"}

isEngineerAgent(agent) == agent \in EngineerAgents

ExitBlockTOON(gate, reason) ==
  [kind |-> "block", gate |-> gate, text |-> reason, exitCode |-> 0]

ExitSubagentStart(context) ==
  [kind |-> "SubagentStart", gate |-> "", text |-> context, exitCode |-> 0]

ExitSubagentStop(context) ==
  [kind |-> "SubagentStop", gate |-> "", text |-> context, exitCode |-> 0]

ExitSilent == [kind |-> "silent", gate |-> "", text |-> <<>>, exitCode |-> 0]

\* Mutant: engineers are started without looking at the research flag.
handleSubagentStart_NoResearch(in, sess) ==
  IF in.AgentType # "" /\ ~isBuiltinAgent(in.AgentType) /\ ~IsValidAgent(in.AgentType)
  THEN ExitBlockTOON("SUBAGENT_GATE", <<"unknown_agent_type:", in.AgentType>>)
  ELSE ExitSubagentStart(<<"[SUBAGENT:START] type:", in.AgentType, " id:", in.AgentID>>)

handleSubagentStart(in, sess) ==
  IF in.AgentType # "" /\ ~isBuiltinAgent(in.AgentType) /\ ~IsValidAgent(in.AgentType)
  THEN ExitBlockTOON("SUBAGENT_GATE", <<"unknown_agent_type:", in.AgentType>>)
  ELSE IF isEngineerAgent(in.AgentType) /\ ~sess.ResearchDone
  THEN ExitBlockTOON("SUBAGENT_GATE",
                     <<"engineer_subagent_requires_research:agent:", in.AgentType,
                       ":id:", in.AgentID>>)
  ELSE ExitSubagentStart(<<"[SUBAGENT:START] type:", in.AgentType, " id:", in.AgentID>>)

handleSubagentStop(in, sess) ==
  ExitSubagentStop(<<"[SUBAGENT:STOP] type:", in.AgentType, " id:", in.AgentID>>)

runSubagentGate(in, sess) ==
  IF in.HookEventName = "SubagentStart" THEN handleSubagentStart(in, sess)
  ELSE IF in.HookEventName = "SubagentStop" THEN handleSubagentStop(in, sess)
  ELSE ExitSilent

(***************************************************************************)
(* directive.go: the dispatch directive of one parallel level              *)
(*                                                                         *)
(* The directive is a sequence of lines, a line a sequence of pieces.      *)
(***************************************************************************)
ParallelLevel(level, nodes) == [Level |-> level, Nodes |-> nodes]

RECURSIVE TaskSections(_, _)
\* for _, n := range level.Nodes, from index i on
TaskSections(nodes, i) ==
  IF i > Len(nodes) THEN <<>>
  ELSE LET n == nodes[i]
       IN << <<"[TASK:", n.ID, "]">>,
             <<"subject: ", n.Subject>>,
             <<"description: ", n.Description>>,
             <<"agent: ", n.Agent>> >>
          \o (IF n.Skill # "" THEN << <<"skill: ", n.Skill>> >> ELSE <<>>)
          \o << <<"metadata: {\"dag_node_id\": \"", n.ID, "\"}">>, <<>> >>
          \o TaskSections(nodes, i + 1)

DirectiveHeader(dagID, level, maxLevel) ==
  << <<"[DAG_SCHEDULER]">>,
     <<"dag_id: ", dagID>>,
     <<"status: active">>,
     <<"level: ", ToString(level.Level), "/", ToString(maxLevel)>>,
     <<>>,
     <<"[PARALLEL_DISPATCH]">>,
     <<"instruction: Create ALL tasks below in a SINGLE message using parallel TaskCreate calls">>,
     <<"count: ", ToString(Len(level.Nodes))>>,
     <<>> >>

AfterLevel ==
  << <<"[AFTER_LEVEL]">>,
     <<"When all tasks above complete, next level will be dispatched automatically.">> >>

\* Mutant: the after-level note is also written for the last level.
BuildParallelDispatch_NoteOnLast(dagID, level, maxLevel) ==
  DirectiveHeader(dagID, level, maxLevel)
    \o TaskSections(level.Nodes, 1)
    \o (IF level.Level <= maxLevel THEN AfterLevel ELSE <<>>)

BuildParallelDispatch(dagID, level, maxLevel) ==
  DirectiveHeader(dagID, level, maxLevel)
    \o TaskSections(level.Nodes, 1)
    \o (IF level.Level < maxLevel THEN AfterLevel ELSE <<>>)

(***************************************************************************)
(* state.go: the DAG state file of a session                               *)
(*                                                                         *)
(* A JSON document is a function from the keys present in it to values.    *)
(* encoding/json drops a field tagged omitempty when it is "", nil or      *)
(* empty, and leaves a field at its zero value when its key is absent.     *)
(***************************************************************************)
NodeKeys(n) ==
  {"id", "subject", "description", "agent", "status", "level"}
    \cup (IF n.Skill # "" THEN {"skill"} ELSE {})
    \cup (IF Len(n.DependsOn) > 0 THEN {"depends_on"} ELSE {})
    \cup (IF Len(n.Blocks) > 0 THEN {"blocks"} ELSE {})
    \cup (IF n.TaskID # "" THEN {"task_id"} ELSE {})
    \cup (IF n.Metadata # Nil /\ DOMAIN n.Metadata # {} THEN {"metadata"} ELSE {})

NodeField(n, k) ==
  CASE k = "id" -> n.ID
    [] k = "subject" -> n.Subject
    [] k = "description" -> n.Description
    [] k = "agent" -> n.Agent
    [] k = "skill" -> n.Skill
    [] k = "status" -> n.Status
    [] k = "depends_on" -> n.DependsOn
    [] k = "blocks" -> n.Blocks
    [] k = "level" -> n.Level
    [] k = "task_id" -> n.TaskID
    [] k = "metadata" -> n.Metadata

\* Mutant: the status is not written to the document.
MarshalNode_NoStatus(n) == [k \in NodeKeys(n) \ {"status"} |-> NodeField(n, k)]

\* json.Marshal of a *Node
MarshalNode(n) == [k \in NodeKeys(n) |-> NodeField(n, k)]

JSONField(j, k, zero) == IF k \in DOMAIN j THEN j[k] ELSE zero

\* json.Unmarshal into a Node
UnmarshalNode(j) ==
  [ID |-> JSONField(j, "id", ""), Subject |-> JSONField(j, "subject", ""),
   Description |-> JSONField(j, "description", ""), Agent |-> JSONField(j, "agent", ""),
   Skill |-> JSONField(j, "skill", ""), Status |-> JSONField(j, "status", ""),
   DependsOn |-> JSONField(j, "depends_on", <<>>), Blocks |-> JSONField(j, "blocks", <<>>),
   Level |-> JSONField(j, "level", 0), TaskID |-> JSONField(j, "task_id", ""),
   Metadata |-> JSONField(j, "metadata", Nil)]

\* json.MarshalIndent of a *DAGState: no field of DAGState is omitempty.
MarshalState(s) ==
  [id |-> s.ID, session_id |-> s.SessionID, root_prompt |-> s.RootPrompt,
   nodes |-> [k \in DOMAIN s.Nodes |-> MarshalNode(s.Nodes[k])],
   max_level |-> s.MaxLevel, status |-> s.Status]

\* json.Unmarshal into a DAGState
UnmarshalState(j) ==
  [ID |-> JSONField(j, "id", ""), SessionID |-> JSONField(j, "session_id", ""),
   RootPrompt |-> JSONField(j, "root_prompt", ""),
   Nodes |-> LET ns == JSONField(j, "nodes", <<>>)
             IN [k \in DOMAIN ns |-> UnmarshalNode(ns[k])],
   MaxLevel |-> JSONField(j, "max_level", 0), Status |-> JSONField(j, "status", "")]

\* A file: the bytes it will hold when fully written, and how much of them it
\* holds now ("none" after the truncating open, "part" during the write).
File(doc, written) == [doc |-> doc, written |-> written]

\* The path of a session's file is a function of the session id alone.
StatePath(sessionID) == sessionID

\* os.WriteFile, first half: open with O_TRUNC|O_CREATE.
WriteFileOpen(d, path, doc) ==
  [f \in (DOMAIN d) \cup {path} |-> IF f = path THEN File(doc, "none") ELSE d[f]]

\* os.WriteFile, the write and the close; a path unlinked meanwhile stays so.
WriteFileWrite(d, path, doc, written) ==
  [f \in DOMAIN d |-> IF f = path THEN File(doc, written) ELSE d[f]]

\* os.Remove
Remove(d, path) == [f \in (DOMAIN d) \ {path} |-> d[f]]

\* Load: the error ("" for nil) and the state returned.
Load(d, sessionID) ==
  IF StatePath(sessionID) \notin DOMAIN d
  THEN [err |-> "open: no such file", state |-> Nil]
  ELSE IF d[StatePath(sessionID)].written # "all"
       THEN [err |-> "unmarshal: unexpected end of JSON input", state |-> Nil]
       ELSE [err |-> "", state |-> UnmarshalState(d[StatePath(sessionID)].doc)]

\* The last call that returned: its name, session, error, the state it took
\* or returned, what a Load found on disk, and whether a Delete of the same
\* session ran while a Save was writing.
StoreOp(op, sid, err, st, seen, overlapped) ==
  [op |-> op, sid |-> sid, err |-> err, state |-> st, seen |-> seen,
   overlapped |-> overlapped]

(***************************************************************************)
(* config/gates.go: the policy document, its defaults and its screens      *)
(*                                                                         *)
(* Lists the screens search are sequences of one-character strings; the    *)
(* other strings are single pieces.  A policy file that parses is a JSON   *)
(* document: a function from the keys present to their values.             *)
(***************************************************************************)
\* json.Unmarshal into ReadConfig
UnmarshalRead(j) ==
  [Enabled |-> JSONField(j, "enabled", FALSE),
   BlockedPaths |-> JSONField(j, "blocked_paths", <<>>),
   BlockedExtensions |-> JSONField(j, "blocked_extensions", <<>>),
   WarnExtensions |-> JSONField(j, "warn_extensions", <<>>),
   WarnPatterns |-> JSONField(j, "warn_patterns", <<>>)]

\* json.Unmarshal into BashConfig
UnmarshalBash(j) ==
  [Enabled |-> JSONField(j, "enabled", FALSE),
   BlockedCommands |-> JSONField(j, "blocked_commands", <<>>),
   BlockedPatterns |-> JSONField(j, "blocked_patterns", <<>>),
   WarnCommands |-> JSONField(j, "warn_commands", <<>>)]

\* json.Unmarshal into WriteConfig
UnmarshalWrite(j) ==
  [Enabled |-> JSONField(j, "enabled", FALSE),
   BlockedPaths |-> JSONField(j, "blocked_paths", <<>>),
   ProtectedFiles |-> JSONField(j, "protected_files", <<>>),
   SecretPatterns |-> JSONField(j, "secret_patterns", <<>>)]

\* json.Unmarshal into EnforcerConfig
UnmarshalEnforcer(j) ==
  [Enabled |-> JSONField(j, "enabled", FALSE),
   Chain |-> JSONField(j, "chain", <<>>),
   FailFast |-> JSONField(j, "fail_fast", FALSE)]

\* json.Unmarshal into IntentConfig
UnmarshalIntent(j) ==
  [Enabled |-> JSONField(j, "enabled", FALSE),
   SkillTriggers |-> JSONField(j, "skill_triggers", Nil),
   ResearchTriggers |-> JSONField(j, "research_triggers", <<>>)]

\* json.Unmarshal into ResearchConfig
UnmarshalResearch(j) ==
  [Enabled |-> JSONField(j, "enabled", FALSE),
   RequireBeforeCode |-> JSONField(j, "require_before_code", FALSE),
   CodeTools |-> JSONField(j, "code_tools", <<>>),
   ResearchTools |-> JSONField(j, "research_tools", <<>>),
   BypassPatterns |-> JSONField(j, "bypass_patterns", <<>>)]

\* json.Unmarshal into ContextConfig
UnmarshalContext(j) ==
  [Enabled |-> JSONField(j, "enabled", FALSE),
   TrackHotPaths |-> JSONField(j, "track_hot_paths", FALSE),
   MaxHotFiles |-> JSONField(j, "max_hot_files", 0),
   PersistToSTM |-> JSONField(j, "persist_to_stm", FALSE)]

\* json.Unmarshal into QualityConfig
UnmarshalQuality(j) ==
  [Enabled |-> JSONField(j, "enabled", FALSE),
   Comment |-> JSONField(j, "comment", ""),
   CheckSyntax |-> JSONField(j, "check_syntax", FALSE),
   CheckImports |-> JSONField(j, "check_imports", FALSE),
   MaxFileSizeKB |-> JSONField(j, "max_file_size_kb", 0)]

\* json.Unmarshal into the zero GatesConfig: a section that is absent stays
\* at its zero value.
UnmarshalGatesConfig(j) ==
  [Schema |-> JSONField(j, "$schema", ""),
   Description |-> JSONField(j, "description", ""),
   Updated |-> JSONField(j, "updated", ""),
   Read |-> UnmarshalRead(JSONField(j, "read", <<>>)),
   Bash |-> UnmarshalBash(JSONField(j, "bash", <<>>)),
   Write |-> UnmarshalWrite(JSONField(j, "write", <<>>)),
   Enforcer |-> UnmarshalEnforcer(JSONField(j, "enforcer", <<>>)),
   Intent |-> UnmarshalIntent(JSONField(j, "intent", <<>>)),
   Research |-> UnmarshalResearch(JSONField(j, "research", <<>>)),
   Context |-> UnmarshalContext(JSONField(j, "context", <<>>)),
   Quality |-> UnmarshalQuality(JSONField(j, "quality", <<>>))]

getDefaultGatesConfig ==
  [Schema |-> "kavach-gates/1.0",
   Description |-> "Default kavach gates config",
   Updated |-> "",
   Read |->
     [Enabled |-> TRUE,
      BlockedPaths |-> <<<<"/", "e", "t", "c", "/", "s", "h", "a", "d", "o", "w">>, <<"/", "e", "t", "c", "/", "p", "a", "s", "s", "w", "d">>, <<"/", ".", "s", "s", "h", "/", "i", "d", "_", "r", "s", "a">>, <<"/", ".", "s", "s", "h", "/", "i", "d", "_", "e", "d", "2", "5", "5", "1", "9">>, <<"/", ".", "a", "w", "s", "/", "c", "r", "e", "d", "e", "n", "t", "i", "a", "l", "s">>, <<"/", ".", "g", "n", "u", "p", "g", "/">>, <<"/", ".", "b", "i", "t", "c", "o", "i", "n", "/", "w", "a", "l", "l", "e", "t", ".", "d", "a", "t">>>>,
      BlockedExtensions |-> <<<<".", "p", "e", "m">>, <<".", "k", "e", "y">>, <<".", "p", "1", "2">>, <<".", "p", "f", "x">>>>,
      WarnExtensions |-> <<<<".", "e", "n", "v">>, <<".", "s", "e", "c", "r", "e", "t">>>>,
      WarnPatterns |-> <<<<"c", "r", "e", "d", "e", "n", "t", "i", "a", "l", "s">>, <<"p", "a", "s", "s", "w", "o", "r", "d">>, <<"t", "o", "k", "e", "n">>>>],
   Bash |->
     [Enabled |-> TRUE,
      BlockedCommands |-> <<<<"r", "m", " ", "-", "r", "f", " ", "/">>, <<"r", "m", " ", "-", "r", "f", " ", "/", "*">>, <<">", " ", "/", "d", "e", "v", "/", "s", "d", "a">>, <<":", "(", ")", "{", " ", ":", "|", ":", "&", " ", "}", ";", ":">>, <<"c", "u", "r", "l", " ", "|", " ", "b", "a", "s", "h">>, <<"w", "g", "e", "t", " ", "|", " ", "s", "h">>>>,
      BlockedPatterns |-> <<>>,
      WarnCommands |-> <<<<"s", "u", "d", "o">>, <<"r", "m", " ", "-", "r", "f">>, <<"c", "h", "m", "o", "d", " ", "7", "7", "7">>>>],
   Write |->
     [Enabled |-> TRUE,
      BlockedPaths |-> <<<<"/", "e", "t", "c", "/">>, <<"/", "u", "s", "r", "/">>, <<"/", "b", "i", "n", "/">>, <<"/", ".", "s", "s", "h", "/">>, <<"/", ".", "a", "w", "s", "/">>>>,
      ProtectedFiles |-> <<<<".", "g", "i", "t", "i", "g", "n", "o", "r", "e">>, <<".", "e", "n", "v">>, <<"C", "a", "r", "g", "o", ".", "l", "o", "c", "k">>>>,
      SecretPatterns |-> <<>>],
   Enforcer |->
     [Enabled |-> TRUE,
      Chain |-> <<"read", "bash", "write">>,
      FailFast |-> TRUE],
   Intent |->
     [Enabled |-> TRUE,
      SkillTriggers |-> [implement |-> <<"rust", "backend">>, debug |-> <<"debug-like-expert">>, security |-> <<"security">>],
      ResearchTriggers |-> <<>>],
   Research |->
     [Enabled |-> TRUE,
      RequireBeforeCode |-> TRUE,
      CodeTools |-> <<"Write", "Edit">>,
      ResearchTools |-> <<"WebSearch", "WebFetch">>,
      BypassPatterns |-> <<>>],
   Context |->
     [Enabled |-> TRUE,
      TrackHotPaths |-> TRUE,
      MaxHotFiles |-> 10,
      PersistToSTM |-> FALSE],
   Quality |->
     [Enabled |-> FALSE,
      Comment |-> "",
      CheckSyntax |-> FALSE,
      CheckImports |-> FALSE,
      MaxFileSizeKB |-> 0]]

\* mergeGatesDefaults: three lists are filled in when empty.
mergeGatesDefaults(cfg) ==
  LET d == getDefaultGatesConfig
  IN [cfg EXCEPT
        !.Read.BlockedPaths = IF Len(@) = 0 THEN d.Read.BlockedPaths ELSE @,
        !.Bash.BlockedCommands = IF Len(@) = 0 THEN d.Bash.BlockedCommands ELSE @,
        !.Write.BlockedPaths = IF Len(@) = 0 THEN d.Write.BlockedPaths ELSE @]

\* What the policy file can be: not there, there but not readable, bytes that
\* are not JSON, or a JSON document.
FileMissing == [kind |-> "missing"]

FileUnreadable == [kind |-> "unreadable"]

FileNotJSON == [kind |-> "not json"]

FileDoc(j) == [kind |-> "json", doc |-> j]

\* Mutant: a file that cannot be read or parsed yields the zero GatesConfig.
loadGatesConfigFromFile_ZeroOnError(file) ==
  IF file.kind \in {"missing", "unreadable", "not json"}
  THEN UnmarshalGatesConfig(<<>>)
  ELSE mergeGatesDefaults(UnmarshalGatesConfig(file.doc))

loadGatesConfigFromFile(file) ==
  IF file.kind \in {"missing", "unreadable"}
  THEN getDefaultGatesConfig
  ELSE IF file.kind = "not json"
       THEN getDefaultGatesConfig
       ELSE mergeGatesDefaults(UnmarshalGatesConfig(file.doc))

HasSuffix(s, p) == Len(s) >= Len(p) /\ HasPrefixAt(s, p, Len(s) - Len(p) + 1)

HasPrefix(s, p) == Len(s) >= Len(p) /\ HasPrefixAt(s, p, 1)

IsBlockedPath(cfg, path) ==
  IF ~cfg.Read.Enabled THEN FALSE
  ELSE \E i \in 1..Len(cfg.Read.BlockedPaths) :
         Contains(ToLower(path), ToLower(cfg.Read.BlockedPaths[i]))

IsBlockedExtension(cfg, path) ==
  IF ~cfg.Read.Enabled THEN FALSE
  ELSE \E i \in 1..Len(cfg.Read.BlockedExtensions) :
         HasSuffix(ToLower(path), ToLower(cfg.Read.BlockedExtensions[i]))

IsWarnPath(cfg, path) ==
  \/ \E i \in 1..Len(cfg.Read.WarnExtensions) :
       HasSuffix(ToLower(path), ToLower(cfg.Read.WarnExtensions[i]))
  \/ \E i \in 1..Len(cfg.Read.WarnPatterns) :
       Contains(ToLower(path), ToLower(cfg.Read.WarnPatterns[i]))

IsBlockedCommand(cfg, cmd) ==
  IF ~cfg.Bash.Enabled THEN FALSE
  ELSE \E i \in 1..Len(cfg.Bash.BlockedCommands) :
         Contains(ToLower(cmd), ToLower(cfg.Bash.BlockedCommands[i]))

IsBlockedWritePath(cfg, path) ==
  IF ~cfg.Write.Enabled THEN FALSE
  ELSE \E i \in 1..Len(cfg.Write.BlockedPaths) :
         HasPrefix(path, cfg.Write.BlockedPaths[i])

(***************************************************************************)
(* config/gates.go: the process-wide cache                                 *)
(***************************************************************************)
\* The TTL of the cache, in clock ticks.
CacheTTL == 2

\* time.Time{}: the value of gatesConfigTime before the first load.
ZeroTime == -1

\* Mutant: a value exactly one TTL old still counts as fresh.
CacheFresh_Inclusive(cfg, t, n) == cfg # Nil /\ t # ZeroTime /\ n - t <= CacheTTL

\* gatesConfig != nil && time.Since(gatesConfigTime) < CacheTTL
CacheFresh(cfg, t, n) == cfg # Nil /\ t # ZeroTime /\ n - t < CacheTTL

\* Mutant: the check under the write lock always fails.
doubleCheck_Never(cfg, t, n) == FALSE

\* The check repeated after the write lock is taken.
doubleCheck(cfg, t, n) == CacheFresh(cfg, t, n)

\* A *GatesConfig on the heap: the policy, and for the claims the file content
\* it was made from, when that was read and when it was put in the cache.
ConfigObject(file, readAt) ==
  [cfg |-> loadGatesConfigFromFile(file), from |-> file, readAt |-> readAt,
   storedAt |-> readAt]

\* A caller of LoadGatesConfig: where it is, its local cfg (at "return" the
\* pointer its first check saw), when it began, whether its first check found
\* the cache expired or absent, and when it made its last check; reload tells
\* whether it was called by ReloadGatesConfig, and reloadAt when that began.
Loader(at, cfg, startAt, expired, checkAt) ==
  [pc |-> at, cfg |-> cfg, startAt |-> startAt, expired |-> expired, checkAt |-> checkAt,
   reload |-> FALSE, reloadAt |-> 0]

IdleLoader == Loader("idle", Nil, 0, FALSE, 0)

\* The last call that returned: who, what it returned, and its Loader record
\* at the return; read tells whether this call read the file.
PolicyOp(c, result, l, read) ==
  [caller |-> c, result |-> result, startAt |-> l.startAt, expired |-> l.expired,
   checkAt |-> l.checkAt, read |-> read, reload |-> l.reload, reloadAt |-> l.reloadAt]

Callers == {"g1", "g2"}

(***************************************************************************)
(* the chain hook process: runChainGate and Runner.RunFull, step by step   *)
(***************************************************************************)
Init ==
  /\ pc = "idle"
  /\ input = NoHookInput
  /\ year \in Years
  /\ prompt = <<>>
  /\ session \in [ID : SessionIDs, ResearchDone : {FALSE}]
  /\ state = NewChainState(session.ID)
  /\ output = NoOutput
  /\ exitCode = -1
  /\ dag = NewDAGState("s1", "root prompt")
  /\ dagOp = DagOp("none", "", "", "", "", NoLevels)
  /\ now = 0
  /\ auditDir = <<>>
  /\ disk = <<>>
  /\ saver = Nil
  /\ storeOp = StoreOp("none", "", "", Nil, "", FALSE)
  /\ policyFile = FileMissing
  /\ gatesConfig = Nil
  /\ gatesConfigTime = ZeroTime
  /\ gatesConfigMu = ""
  /\ loaders = [c \in Callers |-> IdleLoader]
  /\ policyOp = PolicyOp("", Nil, IdleLoader, FALSE)

\* `kavach gates chain` without --hook: prints help and returns. No Runner is
\* constructed; the process memory is that of a fresh process.
HookHelp ==
  /\ pc \in {"idle", "exited"}
  /\ pc' = "exited"
  /\ output' = HelpOutput
  /\ exitCode' = 0
  /\ input' = NoHookInput
  /\ prompt' = <<>>
  /\ state' = NewChainState(session.ID)
  /\ UNCHANGED <<year, session>>
  /\ UNCHANGED <<dagVars, auditVars, storeVars, policyVars>>

\* hook.MustReadHookInput on an envelope that is not valid JSON.
HookMalformed ==
  /\ pc \in {"idle", "exited"}
  /\ pc' = "exited"
  /\ output' = NoOutput
  /\ exitCode' = 1
  /\ input' = NoHookInput
  /\ prompt' = <<>>
  /\ state' = NewChainState(session.ID)
  /\ UNCHANGED <<year, session>>
  /\ UNCHANGED <<dagVars, auditVars, storeVars, policyVars>>

\* runChainGate up to the call of RunFull: read the envelope and the session,
\* derive the prompt, construct a fresh Runner.
hookStart(inputs, years) ==
  /\ pc \in {"idle", "exited"}
  /\ \E h \in inputs, y \in years :
       /\ input' = h
       /\ year' = y
       /\ prompt' = getPromptFromInput(h)
  /\ state' = NewChainState(session.ID)
  /\ output' = NoOutput
  /\ exitCode' = -1
  /\ pc' = "intent"
  /\ UNCHANGED session
  /\ UNCHANGED <<dagVars, auditVars, storeVars, policyVars>>

HookStart == hookStart(HookInputs, Years)

RunIntentGate ==
  /\ pc = "intent"
  /\ \E agents \in extractAgents(ToLower(prompt)) :
       state' = runIntentGate(state, prompt, agents)
  /\ pc' = IF IsBlocked(state') THEN "finalize" ELSE "ceo"
  /\ UNCHANGED <<input, year, prompt, session, output, exitCode>>
  /\ UNCHANGED <<dagVars, auditVars, storeVars, policyVars>>

RunCEOGate ==
  /\ pc = "ceo"
  /\ state' = runCEOGate(state, input.ToolName, agentTypeOf(input.ToolInput))
  /\ pc' = IF IsBlocked(state') THEN "finalize" ELSE "aegis"
  /\ UNCHANGED <<input, year, prompt, session, output, exitCode>>
  /\ UNCHANGED <<dagVars, auditVars, storeVars, policyVars>>

RunAegisGate ==
  /\ pc = "aegis"
  /\ state' = runAegisGate(state, input.ToolName, input.ToolInput, year)
  /\ pc' = IF IsBlocked(state') THEN "finalize" ELSE "research"
  /\ UNCHANGED <<input, year, prompt, session, output, exitCode>>
  /\ UNCHANGED <<dagVars, auditVars, storeVars, policyVars>>

\* Gate 4 and, when it does not block, line 481: FinalStatus = "approved".
RunResearchGate ==
  /\ pc = "research"
  /\ LET c == runResearchGate(state, session.ResearchDone, prompt, year)
     IN state' = IF IsBlocked(c) THEN c ELSE [c EXCEPT !.FinalStatus = "approved"]
  /\ pc' = "finalize"
  /\ UNCHANGED <<input, year, prompt, session, output, exitCode>>
  /\ UNCHANGED <<dagVars, auditVars, storeVars, policyVars>>

\* What can go wrong in saveState: MkdirAll, MarshalIndent, the open of
\* os.WriteFile, its write.
SaveFaults == {"", "mkdir", "marshal", "open", "write"}

\* fmt.Sprintf("chain_%s_%d.json", r.state.SessionID, time.Now().Unix())
AuditFileName(sessionID, unix) == <<"chain_", sessionID, "_", unix, ".json">>

\* json.MarshalIndent(r.state, "", "  "): the document, kept by its
\* session_id and final_status keys.  No code reads an audit file back; the
\* two keys are enough to tell the records of two runs apart.
AuditRecord(c) == [session_id |-> c.SessionID, final_status |-> c.FinalStatus]

\* What os.WriteFile leaves when the write fails after the truncating open.
TruncatedFile == <<>>

\* saveState: the audit directory it leaves.  NewRunner always sets cacheDir,
\* so the early return on an empty cacheDir is never taken.  No error is
\* looked at: a failed MkdirAll is followed by a WriteFile that fails too.
saveState(dir, c, t, fault) ==
  LET name == AuditFileName(c.SessionID, t)
  IN IF fault \in {"mkdir", "marshal", "open"}
     THEN dir
     ELSE [f \in (DOMAIN dir) \cup {name} |->
             IF f = name
             THEN (IF fault = "write" THEN TruncatedFile ELSE AuditRecord(c))
             ELSE dir[f]]

\* Mutant: a record that could not be persisted blocks the chain.
finalize_FailBlocks(dir, c, t, fault) ==
  [state |-> IF fault = "" THEN c ELSE [c EXCEPT !.FinalStatus = "blocked"],
   dir |-> saveState(dir, c, t, fault)]

\* finalize: saveState writes the audit file; RunFull returns r.state.
finalize(dir, c, t, fault) == [state |-> c, dir |-> saveState(dir, c, t, fault)]

Finalize ==
  /\ pc = "finalize"
  /\ \E fault \in SaveFaults :
       LET r == finalize(auditDir, state, now, fault)
       IN /\ state' = r.state
          /\ auditDir' = r.dir
  /\ pc' = "returned"
  /\ UNCHANGED <<input, year, prompt, session, output, exitCode, now>>
  /\ UNCHANGED <<dagVars, storeVars, policyVars>>

hasWarnings(c) == \E i \in 1..Len(c.Results) : c.Results[i].Status = "warn"

\* Mutant: the warning check comes before the block check.
Decide_WarnFirst(c, yr) ==
  IF hasWarnings(c)
  THEN [kind |-> "response", HookEventName |-> "PreToolUse",
        PermissionDecision |-> "allow",
        PermissionDecisionReason |-> <<"Chain passed with warnings">>,
        AdditionalContext |-> ToTOON(c, yr)]
  ELSE IF IsBlocked(c)
       THEN [kind |-> "response", HookEventName |-> "PreToolUse",
             PermissionDecision |-> "deny",
             PermissionDecisionReason |-> GetBlockReason(c),
             AdditionalContext |-> ToTOON(c, yr)]
       ELSE NoOutput

\* runChainGate after RunFull returned.
Decide(c, yr) ==
  IF IsBlocked(c)
  THEN [kind |-> "response", HookEventName |-> "PreToolUse",
        PermissionDecision |-> "deny",
        PermissionDecisionReason |-> GetBlockReason(c),
        AdditionalContext |-> ToTOON(c, yr)]
  ELSE IF hasWarnings(c)
       THEN [kind |-> "response", HookEventName |-> "PreToolUse",
             PermissionDecision |-> "allow",
             PermissionDecisionReason |-> <<"Chain passed with warnings">>,
             AdditionalContext |-> ToTOON(c, yr)]
       ELSE NoOutput

EmitDecision ==
  /\ pc = "returned"
  /\ output' = Decide(state, year)
  /\ exitCode' = 0
  /\ pc' = "exited"
  /\ UNCHANGED <<input, year, prompt, state, session>>
  /\ UNCHANGED <<dagVars, auditVars, storeVars, policyVars>>

\* Another gate of the sidecar records that a research tool ran.
MarkResearchDone ==
  /\ pc \in {"idle", "exited"}
  /\ ~session.ResearchDone
  /\ session' = [session EXCEPT !.ResearchDone = TRUE]
  /\ UNCHANGED <<pc, input, year, prompt, state, output, exitCode>>
  /\ UNCHANGED <<dagVars, auditVars, storeVars, policyVars>>

Next ==
  \/ HookHelp
  \/ HookMalformed
  \/ HookStart
  \/ RunIntentGate
  \/ RunCEOGate
  \/ RunAegisGate
  \/ RunResearchGate
  \/ Finalize
  \/ EmitDecision
  \/ MarkResearchDone

(***************************************************************************)
(* the scheduler driven by its callers                                     *)
(***************************************************************************)
MaxEdges == 2

MaxTopoEdges == 4

\* The nodes of the scheduled graphs, in the order the builder adds them.
DagNodeOrder == <<"a", "b", "c">>

DagNodeIds == {DagNodeOrder[i] : i \in 1..Len(DagNodeOrder)}

\* The nodes of the levelized graphs, in the order the builder adds them.
TopoNodeOrder == <<"a", "b", "c", "d", "e">>

\* Status fields of the Node literals handed to AddNode ("" is the zero value).
AddNodeStatuses == {"", StatusReady}

\* Statuses the callers of UpdateNodeStatus report for a task.
UpdateStatuses == {StatusRunning, StatusDone, StatusFailed}

\* Edges the status propagation is driven with: they build every shape of
\* three nodes (chain, fork, join) and offer self, direct and transitive
\* back edges.
DagEdges ==
  {<<"a", "b">>, <<"b", "c">>, <<"a", "c">>, <<"b", "a">>, <<"c", "a">>, <<"a", "a">>}

\* Edges the levelization is driven with: the diamond and edges around it.
TopoEdges ==
  {<<"a", "c">>, <<"b", "d">>, <<"c", "e">>, <<"d", "e">>, <<"a", "e">>,
   <<"e", "a">>, <<"a", "b">>, <<"d", "c">>}

EdgeCount(s) ==
  LET ids == NodeIdsOf(s)
      RECURSIVE sum(_)
      sum(S) == IF S = {} THEN 0
                ELSE LET x == CHOOSE y \in S : TRUE
                     IN Len(s.Nodes[x].DependsOn) + sum(S \ {x})
  IN sum(ids)

\* The scheduler commands are studied with the chain hook not running.
InitDag == Init /\ year = <<"2", "0", "2", "6">>

DoAddNode(id, status) ==
  LET r == AddNode(dag, NewNode(id, status))
  IN /\ dag' = r.s
     /\ dagOp' = DagOp("AddNode", id, "", "", r.err, NoLevels)
     /\ UNCHANGED <<vars, auditVars, storeVars, policyVars>>

DoAddEdge(depID, nodeID) ==
  LET r == AddEdge(dag, depID, nodeID)
  IN /\ dag' = r.s
     /\ dagOp' = DagOp("AddEdge", depID, nodeID, "", r.err, NoLevels)
     /\ UNCHANGED <<vars, auditVars, storeVars, policyVars>>

DoUpdateNodeStatus(id, status) ==
  /\ dag' = UpdateNodeStatus(dag, id, status)
  /\ dagOp' = DagOp("UpdateNodeStatus", id, "", status, "", NoLevels)
  /\ UNCHANGED <<vars, auditVars, storeVars, policyVars>>

DoTopoLevels(seed) ==
  LET r == TopoLevels(dag, seed)
  IN /\ dag' = r.s
     /\ dagOp' = DagOp("TopoLevels", "", "", "", r.err, r.levels)
     /\ UNCHANGED <<vars, auditVars, storeVars, policyVars>>

\* A node already added may be added again (and is rejected).
DagAddNode ==
  \E i \in 1..Len(DagNodeOrder), st \in AddNodeStatuses :
    /\ i <= Cardinality(NodeIdsOf(dag)) + 1
    /\ DoAddNode(DagNodeOrder[i], st)

\* At most MaxEdges edges are accepted; rejected calls are always possible.
DagAddEdge ==
  \E e \in DagEdges :
    /\ EdgeCount(dag) < MaxEdges \/ AddEdge(dag, e[1], e[2]).err # ""
    /\ DoAddEdge(e[1], e[2])

DagUpdateNodeStatus ==
  \E id \in DagNodeIds, st \in UpdateStatuses : DoUpdateNodeStatus(id, st)

DagNext ==
  \/ DagAddNode
  \/ DagAddEdge
  \/ DagUpdateNodeStatus

\* Schedule builds the graph and then levelizes it once: nothing is added
\* once TopoLevels has run.
TopoAddNode ==
  /\ dagOp.op # "TopoLevels"
  /\ \E i \in 1..Len(TopoNodeOrder) :
       /\ i <= Cardinality(NodeIdsOf(dag)) + 1
       /\ DoAddNode(TopoNodeOrder[i], "")

TopoAddEdge ==
  /\ dagOp.op # "TopoLevels"
  /\ \E e \in TopoEdges :
       /\ EdgeCount(dag) < MaxTopoEdges \/ AddEdge(dag, e[1], e[2]).err # ""
       /\ DoAddEdge(e[1], e[2])

TopoRun ==
  /\ dagOp.op # "TopoLevels"
  /\ \E seed \in TopoSeeds(dag) : DoTopoLevels(seed)

TopoNext ==
  \/ TopoAddNode
  \/ TopoAddEdge
  \/ TopoRun

(***************************************************************************)
(* the state file driven by its callers: one invocation saving, others     *)
(* loading and deleting while it does                                      *)
(***************************************************************************)
\* TestStatePersistence: one node with a subject and an agent.
StorePersistTest ==
  AddNode(NewDAGState("s1", "persist test"),
          [NewNode("p1", "") EXCEPT !.Subject = "Persist node", !.Agent = "test"]).s

\* A dispatched chain a -> b: a done under a task id, b promoted, both with
\* the skill and the metadata a dispatcher attaches; levels written.
StoreChain ==
  LET n(id) == [NewNode(id, "") EXCEPT !.Subject = "task", !.Agent = "eng",
                  !.Skill = "go", !.Metadata = [node_id |-> id]]
      s1 == AddNode(AddNode(NewDAGState("s1", "root prompt"), n("a")).s, n("b")).s
      s2 == TopoLevels(AddEdge(s1, "a", "b").s, <<"a">>).s
      s3 == [s2 EXCEPT !.Nodes["a"].TaskID = "t-1"]
  IN UpdateNodeStatus(UpdateNodeStatus(s3, "a", StatusRunning), "a", StatusDone)

\* The same chain with a failed: b skipped, the DAG failed.
StoreFailed ==
  LET s1 == AddNode(AddNode(NewDAGState("s1", "root prompt"), NewNode("a", StatusReady)).s,
                    NewNode("b", "")).s
  IN UpdateNodeStatus(AddEdge(s1, "a", "b").s, "a", StatusFailed)

\* A second session that has no node yet.
StoreEmpty == NewDAGState("s2", "")

StoreStates == {StorePersistTest, StoreChain, StoreFailed, StoreEmpty}

StoreSessions == {"s1", "s2"}

InitStore == Init /\ year = <<"2", "0", "2", "6">>

\* Save up to the truncating open of os.WriteFile, or its early return when
\* MkdirAll fails.
StoreSaveOpen ==
  /\ saver = Nil
  /\ \E st \in StoreStates, mkdirFails \in BOOLEAN :
       IF mkdirFails
       THEN /\ storeOp' = StoreOp("Save", st.SessionID, "mkdir: permission denied", st, "", FALSE)
            /\ UNCHANGED <<disk, saver>>
       ELSE /\ disk' = WriteFileOpen(disk, StatePath(st.SessionID), MarshalState(st))
            /\ saver' = [state |-> st, overlapped |-> FALSE]
            /\ UNCHANGED storeOp
  /\ UNCHANGED <<vars, dagVars, auditVars, policyVars>>

\* The write of os.WriteFile has put a part of the bytes in the file.
StoreSaveWrite ==
  /\ saver # Nil
  /\ StatePath(saver.state.SessionID) \in DOMAIN disk
  /\ disk[StatePath(saver.state.SessionID)].written = "none"
  /\ disk' = WriteFileWrite(disk, StatePath(saver.state.SessionID),
                            MarshalState(saver.state), "part")
  /\ UNCHANGED <<saver, storeOp>>
  /\ UNCHANGED <<vars, dagVars, auditVars, policyVars>>

\* The write is complete, the file is closed and Save returns nil.
StoreSaveClose ==
  /\ saver # Nil
  /\ disk' = WriteFileWrite(disk, StatePath(saver.state.SessionID),
                            MarshalState(saver.state), "all")
  /\ storeOp' = StoreOp("Save", saver.state.SessionID, "", saver.state, "", saver.overlapped)
  /\ saver' = Nil
  /\ UNCHANGED <<vars, dagVars, auditVars, policyVars>>

StoreLoad ==
  /\ \E sid \in StoreSessions :
       LET r == Load(disk, sid)
           seen == IF StatePath(sid) \in DOMAIN disk
                   THEN disk[StatePath(sid)].written ELSE "absent"
       IN storeOp' = StoreOp("Load", sid, r.err, r.state, seen, FALSE)
  /\ UNCHANGED <<disk, saver>>
  /\ UNCHANGED <<vars, dagVars, auditVars, policyVars>>

StoreDelete ==
  /\ \E sid \in StoreSessions :
       /\ disk' = Remove(disk, StatePath(sid))
       /\ storeOp' = StoreOp("Delete", sid,
                             IF StatePath(sid) \in DOMAIN disk THEN ""
                             ELSE "remove: no such file", Nil, "", FALSE)
       /\ saver' = IF saver # Nil /\ saver.state.SessionID = sid
                    THEN [saver EXCEPT !.overlapped = TRUE] ELSE saver
  /\ UNCHANGED <<vars, dagVars, auditVars, policyVars>>

StoreNext ==
  \/ StoreSaveOpen
  \/ StoreSaveWrite
  \/ StoreSaveClose
  \/ StoreLoad
  \/ StoreDelete

(***************************************************************************)
(* the audit directory over several invocations while the clock advances   *)
(***************************************************************************)
MaxNow == 1

\* One envelope the chain blocks and one it approves.
AuditInputs ==
  {[Prompt |-> P_Hello, ToolName |-> Bash(Cmd_RmRf).ToolName,
    ToolInput |-> Bash(Cmd_RmRf).ToolInput],
   [Prompt |-> P_FixTypo, ToolName |-> Read(Path_Src).ToolName,
    ToolInput |-> Read(Path_Src).ToolInput]}

InitAudit == Init /\ year = <<"2", "0", "2", "6">>

AuditHookStart == hookStart(AuditInputs, {<<"2", "0", "2", "6">>})

\* A second of wall-clock time passes.
Tick ==
  /\ now < MaxNow
  /\ now' = now + 1
  /\ UNCHANGED <<vars, dagVars, auditDir, storeVars, policyVars>>

AuditNext ==
  \/ AuditHookStart
  \/ RunIntentGate
  \/ RunCEOGate
  \/ RunAegisGate
  \/ RunResearchGate
  \/ Finalize
  \/ EmitDecision
  \/ Tick

(***************************************************************************)
(* the policy cache driven by concurrent callers of LoadGatesConfig while  *)
(* the clock advances and the policy file is edited                        *)
(***************************************************************************)
MaxPolicyNow == 3

Chars_Secret == <<"/", "s", "e", "c", "r", "e", "t", "/">>

Chars_Sudo == <<"s", "u", "d", "o">>

Chars_Vault == <<".", "v", "a", "u", "l", "t">>

\* {}
Doc_Empty == <<>>

\* A read section with its own blocked paths and nothing else.
Doc_ReadPaths == [read |-> [enabled |-> TRUE, blocked_paths |-> <<Chars_Secret>>]]

\* A shell section with warn commands only; no read or write section.
Doc_BashWarn == [bash |-> [enabled |-> TRUE, warn_commands |-> <<Chars_Sudo>>]]

\* Read, shell and write sections with every list of their own.
Doc_Own ==
  [read |-> [enabled |-> TRUE, blocked_paths |-> <<Chars_Secret>>,
             blocked_extensions |-> <<Chars_Vault>>, warn_extensions |-> <<Chars_Vault>>,
             warn_patterns |-> <<Chars_Secret>>],
   bash |-> [enabled |-> TRUE, blocked_commands |-> <<Chars_Sudo>>,
             blocked_patterns |-> <<Chars_Sudo>>, warn_commands |-> <<Chars_Sudo>>],
   write |-> [enabled |-> TRUE, blocked_paths |-> <<Chars_Secret>>,
              protected_files |-> <<Chars_Vault>>, secret_patterns |-> <<Chars_Secret>>]]

PolicyFiles ==
  {FileMissing, FileUnreadable, FileNotJSON, FileDoc(Doc_Empty), FileDoc(Doc_ReadPaths),
   FileDoc(Doc_BashWarn), FileDoc(Doc_Own)}

CacheFiles == {FileMissing, FileDoc(Doc_ReadPaths)}

InitPolicy == Init /\ year = <<"2", "0", "2", "6">>

\* RLock, the first check, RUnlock. The call comes from a gate ("idle") or
\* from ReloadGatesConfig ("check").
LoadCheck(c) ==
  /\ loaders[c].pc \in {"idle", "check"}
  /\ gatesConfigMu = ""
  /\ LET fresh == CacheFresh(gatesConfig, gatesConfigTime, now)
     IN loaders' = [loaders EXCEPT ![c] =
                      [Loader(IF fresh THEN "return" ELSE "lock",
                              IF fresh THEN gatesConfig ELSE Nil, now, ~fresh, now)
                         EXCEPT !.reload = loaders[c].reload,
                                !.reloadAt = loaders[c].reloadAt]]
  /\ UNCHANGED <<policyFile, gatesConfig, gatesConfigTime, gatesConfigMu, policyOp, now>>
  /\ UNCHANGED <<vars, dagVars, auditDir, storeVars>>

\* `return gatesConfig` after RUnlock: the package variable is read without
\* the lock, a data race with a writer. The read yields the pointer the
\* check saw or the pointer the variable holds now.
LoadReturnCached(c) ==
  /\ loaders[c].pc = "return"
  /\ \E v \in {loaders[c].cfg, gatesConfig} :
       policyOp' = PolicyOp(c, v, loaders[c], FALSE)
  /\ loaders' = [loaders EXCEPT ![c] = IdleLoader]
  /\ UNCHANGED <<policyFile, gatesConfig, gatesConfigTime, gatesConfigMu, now>>
  /\ UNCHANGED <<vars, dagVars, auditDir, storeVars>>

\* Lock and the double check: return the cached value (the deferred Unlock
\* runs) or go on to read the file with the lock held.
LoadLock(c) ==
  /\ loaders[c].pc = "lock"
  /\ gatesConfigMu = ""
  /\ LET l == [loaders[c] EXCEPT !.checkAt = now]
     IN IF doubleCheck(gatesConfig, gatesConfigTime, now)
        THEN /\ policyOp' = PolicyOp(c, gatesConfig, l, FALSE)
             /\ loaders' = [loaders EXCEPT ![c] = IdleLoader]
             /\ UNCHANGED gatesConfigMu
        ELSE /\ loaders' = [loaders EXCEPT ![c] = [l EXCEPT !.pc = "read"]]
             /\ gatesConfigMu' = c
             /\ UNCHANGED policyOp
  /\ UNCHANGED <<policyFile, gatesConfig, gatesConfigTime, now>>
  /\ UNCHANGED <<vars, dagVars, auditDir, storeVars>>

\* cfg := loadGatesConfigFromFile()
LoadRead(c) ==
  /\ loaders[c].pc = "read"
  /\ loaders' = [loaders EXCEPT ![c] =
                   [@ EXCEPT !.pc = "store", !.cfg = ConfigObject(policyFile, now)]]
  /\ UNCHANGED <<policyFile, gatesConfig, gatesConfigTime, gatesConfigMu, policyOp, now>>
  /\ UNCHANGED <<vars, dagVars, auditDir, storeVars>>

\* gatesConfig = cfg; gatesConfigTime = time.Now(); return cfg; Unlock.
LoadStore(c) ==
  /\ loaders[c].pc = "store"
  /\ LET obj == [loaders[c].cfg EXCEPT !.storedAt = now]
     IN /\ gatesConfig' = obj
        /\ policyOp' = PolicyOp(c, obj, loaders[c], TRUE)
  /\ gatesConfigTime' = now
  /\ gatesConfigMu' = ""
  /\ loaders' = [loaders EXCEPT ![c] = IdleLoader]
  /\ UNCHANGED <<policyFile, now>>
  /\ UNCHANGED <<vars, dagVars, auditDir, storeVars>>

LoadGatesConfig(c) ==
  \/ LoadCheck(c)
  \/ LoadReturnCached(c)
  \/ LoadLock(c)
  \/ LoadRead(c)
  \/ LoadStore(c)

\* ReloadGatesConfig is entered.
ReloadBegin(c) ==
  /\ loaders[c].pc = "idle"
  /\ loaders' = [loaders EXCEPT ![c] =
                   [IdleLoader EXCEPT !.pc = "reset", !.reload = TRUE, !.reloadAt = now]]
  /\ UNCHANGED <<policyFile, gatesConfig, gatesConfigTime, gatesConfigMu, policyOp, now>>
  /\ UNCHANGED <<vars, dagVars, auditDir, storeVars>>

\* Lock; gatesConfig = nil; gatesConfigTime = time.Time{}; Unlock. The call
\* of LoadGatesConfig follows.
ReloadReset(c) ==
  /\ loaders[c].pc = "reset"
  /\ gatesConfigMu = ""
  /\ gatesConfig' = Nil
  /\ gatesConfigTime' = ZeroTime
  /\ loaders' = [loaders EXCEPT ![c] = [@ EXCEPT !.pc = "check"]]
  /\ UNCHANGED <<policyFile, gatesConfigMu, policyOp, now>>
  /\ UNCHANGED <<vars, dagVars, auditDir, storeVars>>

ReloadGatesConfig(c) ==
  \/ ReloadBegin(c)
  \/ ReloadReset(c)

\* A tick of the clock the cache is stamped with.
PolicyTick ==
  /\ now < MaxPolicyNow
  /\ now' = now + 1
  /\ UNCHANGED <<vars, dagVars, auditDir, storeVars, policyVars>>

\* The user or the assistant rewrites, removes or damages the policy file.
PolicyFileWrite(files) ==
  /\ \E f \in files \ {policyFile} : policyFile' = f
  /\ UNCHANGED <<gatesConfig, gatesConfigTime, gatesConfigMu, loaders, policyOp, now>>
  /\ UNCHANGED <<vars, dagVars, auditDir, storeVars>>

PolicyLoad == \E c \in Callers : LoadGatesConfig(c)

PolicyEdit == PolicyFileWrite(CacheFiles)

PolicyNext ==
  \/ PolicyLoad
  \/ PolicyTick
  \/ PolicyEdit

(***************************************************************************)
(* the policy store with callers that load and callers that force a reload *)
(***************************************************************************)
PolicyReload == \E c \in Callers : ReloadGatesConfig(c)

\* The policy file is left as it is.
ReloadNext ==
  \/ PolicyLoad
  \/ PolicyReload
  \/ PolicyTick

(***************************************************************************)
(* the policy store with one caller and every kind of policy file          *)
(***************************************************************************)
FileLoad == LoadGatesConfig("g1")

FileEdit == PolicyFileWrite(PolicyFiles)

FileNext ==
  \/ FileLoad
  \/ PolicyTick
  \/ FileEdit

\* A scheduler command levelizes the graph again, as it stands: TopoLevels on
\* the state the last run left (a = "again" tells the runs apart).
TopoRerun ==
  /\ dagOp.op = "TopoLevels"
  /\ dagOp.a = ""
  /\ \E seed \in TopoSeeds(dag) :
       LET r == TopoLevels(dag, seed)
       IN /\ dag' = r.s
          /\ dagOp' = DagOp("TopoLevels", "again", "", "", r.err, r.levels)
  /\ UNCHANGED <<vars, auditVars, storeVars, policyVars>>

RelevelNext ==
  \/ TopoAddNode
  \/ TopoAddEdge
  \/ TopoRun
  \/ TopoRerun

(***************************************************************************)
(* Driver of the graph walks: a diamond a -> {b, c} -> d built with        *)
(* repeated edges, then levelized or hit by up to MaxFails failures; each  *)
(* call is recorded with the nodes its walk expanded or wrote              *)
(***************************************************************************)
MaxWorkEdges == 5

MaxFails == 2

Building == dagOp.op \in {"none", "AddNode", "AddEdge"}

WorkNodeOrder == <<"a", "b", "c", "d">>

WorkEdges ==
  {<<"a", "b">>, <<"a", "c">>, <<"b", "d">>, <<"c", "d">>, <<"d", "a">>}

WorkOp(op, a, b, status, err, levels, walk) ==
  [op |-> op, a |-> a, b |-> b, status |-> status, err |-> err, levels |-> levels,
   walk |-> walk]

WorkAddNode ==
  \E i \in 1..Len(WorkNodeOrder) :
    /\ Building
    /\ i = Cardinality(NodeIdsOf(dag)) + 1
    /\ dag' = AddNode(dag, NewNode(WorkNodeOrder[i], "")).s
    /\ dagOp' = WorkOp("AddNode", WorkNodeOrder[i], "", "", "", NoLevels, <<>>)
    /\ UNCHANGED <<vars, auditVars, storeVars, policyVars>>

\* AddEdge, with the visited map its search left.
WorkAddEdge ==
  \E e \in WorkEdges :
    LET r == AddEdge(dag, e[1], e[2])
        known == e[1] \in NodeIdsOf(dag) /\ e[2] \in NodeIdsOf(dag)
    IN /\ Building
       /\ EdgeCount(dag) < MaxWorkEdges \/ r.err # ""
       /\ dag' = r.s
       /\ dagOp' = WorkOp("AddEdge", e[1], e[2], "", r.err, NoLevels,
                          IF known THEN hasPath(dag, e[2], e[1], <<>>).visited ELSE <<>>)
       /\ UNCHANGED <<vars, auditVars, storeVars, policyVars>>

\* UpdateNodeStatus(id, failed), with the nodes the propagation wrote.
WorkFail ==
  \E id \in NodeIdsOf(dag) :
    /\ dagOp.op # "TopoLevels"
    /\ Cardinality({m \in NodeIdsOf(dag) : dag.Nodes[m].Status = StatusFailed}) < MaxFails
    /\ dag' = UpdateNodeStatus(dag, id, StatusFailed)
    /\ dagOp' = WorkOp("UpdateNodeStatus", id, "", StatusFailed, "", NoLevels,
                       skipTraceAll([s |-> [dag EXCEPT !.Nodes[id].Status = StatusFailed],
                                     marked |-> <<>>],
                                    dag.Nodes[id].Blocks, 1).marked)
    /\ UNCHANGED <<vars, auditVars, storeVars, policyVars>>

\* TopoLevels, with the nodes it processed in the order of the levels.
WorkTopo ==
  \E seed \in TopoSeeds(dag) :
    LET r == TopoLevels(dag, seed)
        RECURSIVE flat(_)
        flat(k) == IF k > Len(r.levels) THEN <<>> ELSE r.levels[k].Nodes \o flat(k + 1)
    IN /\ Building
       /\ dag' = r.s
       /\ dagOp' = WorkOp("TopoLevels", "", "", "", r.err, r.levels, flat(1))
       /\ UNCHANGED <<vars, auditVars, storeVars, policyVars>>

WorkNext ==
  \/ WorkAddNode
  \/ WorkAddEdge
  \/ WorkFail
  \/ WorkTopo

(***************************************************************************)
(* Driver of the intent classifier: one run of the intent gate on a prompt *)
(* made of one keyword of each bucket of a set of buckets, in either order *)
(***************************************************************************)
BucketKeywords ==
  <<implementKeywords, debugKeywords, refactorKeywords, deployKeywords,
    securityKeywords, destructiveKeywords>>

\* build, crash, improve, publish, encrypt, purge
BucketWord ==
  <<implementKeywords[3], debugKeywords[7], refactorKeywords[4],
    deployKeywords[3], securityKeywords[3], destructiveKeywords[5]>>

RECURSIVE JoinWords(_, _, _)
JoinWords(B, i, up) ==
  IF i < 1 \/ i > Len(BucketWord) THEN <<>>
  ELSE LET rest == JoinWords(B, IF up THEN i + 1 ELSE i - 1, up)
       IN IF i \in B
          THEN IF rest = <<>> THEN BucketWord[i] ELSE BucketWord[i] \o <<" ">> \o rest
          ELSE rest

IntentPrompts ==
  {JoinWords(B, 1, TRUE) : B \in SUBSET (1..Len(BucketWord))}
    \cup {JoinWords(B, Len(BucketWord), FALSE) : B \in SUBSET (1..Len(BucketWord))}
    \cup Prompts

IntentInputs == {[NoHookInput EXCEPT !.Prompt = p] : p \in IntentPrompts}

InitIntent == Init /\ year = <<"2", "0", "2", "6">>

IntentHookStart == hookStart(IntentInputs, {<<"2", "0", "2", "6">>})

IntentNext ==
  \/ IntentHookStart
  \/ RunIntentGate

(***************************************************************************)
(* Driver of the dispatch directive: BuildParallelDispatch on a level of   *)
(* up to MaxWave nodes, for every level number and maximum up to           *)
(* MaxDirLevel                                                             *)
(***************************************************************************)
MaxWave == 2

MaxDirLevel == 2

\* The nodes of TestBuildDirective, and one with a skill and a description.
DirectiveNodes ==
  {[NewNode("d1", StatusReady) EXCEPT !.Subject = "Task 1", !.Agent = "eng"],
   [NewNode("d2", StatusReady) EXCEPT !.Subject = "Task 2", !.Agent = "eng"],
   [NewNode("d3", StatusReady) EXCEPT !.Subject = "Task 3", !.Agent = "qa-lead",
                                      !.Description = "run it", !.Skill = "testing"]}

DirectiveWaves ==
  UNION {[1..k -> DirectiveNodes] : k \in 0..MaxWave}

DirectiveOp(level, maxLevel, out) ==
  [op |-> "BuildParallelDispatch", level |-> level, maxLevel |-> maxLevel, out |-> out]

DirectiveBuild ==
  /\ \E nodes \in DirectiveWaves, l \in 0..MaxDirLevel, m \in 0..MaxDirLevel :
       dagOp' = DirectiveOp(ParallelLevel(l, nodes), m,
                            BuildParallelDispatch(dag.ID, ParallelLevel(l, nodes), m))
  /\ UNCHANGED <<vars, dag, auditVars, storeVars, policyVars>>

(***************************************************************************)
(* Driver of the subagent gate: invocations of `kavach gates subagent      *)
(* --hook`, one after the other, and the research flag set in between      *)
(***************************************************************************)
SubagentEvents == {"SubagentStart", "SubagentStop", "PreToolUse"}

SubagentTypes ==
  {"", "Explore", "backend-engineer", "security-engineer", "ghost-engineer",
   "qa-lead", "mystery"}

SubagentIDs == {"", "ag1"}

SubagentInputs ==
  [HookEventName : SubagentEvents, AgentType : SubagentTypes, AgentID : SubagentIDs]

\* hook.MustReadHookInput and enforce.GetOrCreateSession.
SubagentRead ==
  /\ pc \in {"idle", "exited"}
  /\ input' \in SubagentInputs
  /\ output' = NoOutput
  /\ exitCode' = -1
  /\ pc' = "subagent"
  /\ UNCHANGED <<year, prompt, state, session>>
  /\ UNCHANGED <<dagVars, auditVars, storeVars, policyVars>>

RunSubagentGate ==
  /\ pc = "subagent"
  /\ output' = runSubagentGate(input, session)
  /\ exitCode' = output'.exitCode
  /\ pc' = "exited"
  /\ UNCHANGED <<input, year, prompt, state, session>>
  /\ UNCHANGED <<dagVars, auditVars, storeVars, policyVars>>

SubagentNext ==
  \/ SubagentRead
  \/ RunSubagentGate
  \/ MarkResearchDone

Spec == Init /\ [][Next]_allVars

SpecPolicyFile == InitPolicy /\ [][FileNext]_allVars

SpecIntent == InitIntent /\ [][IntentNext]_allVars

SpecWork == InitDag /\ [][WorkNext]_allVars

SpecReload == InitPolicy /\ [][ReloadNext]_allVars

SpecRelevel == InitDag /\ [][RelevelNext]_allVars

SpecSubagent == InitAudit /\ [][SubagentNext]_allVars

SpecDirective == InitDag /\ [][DirectiveBuild]_allVars

SpecPolicy == InitPolicy /\ [][PolicyNext]_allVars

SpecAudit == InitAudit /\ [][AuditNext]_allVars

SpecDag == InitDag /\ [][DagNext]_allVars

SpecTopo == InitDag /\ [][TopoNext]_allVars

SpecStore == InitStore /\ [][StoreNext]_allVars

(***************************************************************************)
(* properties of the verification chain                                    *)
(***************************************************************************)
GateOrder == <<"INTENT", "CEO", "AEGIS", "RESEARCH">>

\* The position of the hook process at which each gate runs.
GatePc == <<"intent", "ceo", "aegis", "research">>

\* The structured verdicts of a ChainState, in gate order.
GateRecords(c) == <<c.Intent, c.CEO, c.Aegis, c.Research>>

\* RunFull is executing or has returned to runChainGate.
InRunFull == pc \in {"intent", "ceo", "aegis", "research", "finalize", "returned"}

\* RunFull has returned, or the hook has exited after a chain run.
ChainRan == pc = "returned" \/ (pc = "exited" /\ exitCode = 0 /\ output.kind # "help")

HasBlock(c) == \E i \in 1..Len(c.Results) : c.Results[i].Status = "block"

\* C1: in every state of a RunFull call the gate names in Results are a
\* prefix of INTENT, CEO, AEGIS, RESEARCH; if the k-th gate blocked, Results
\* has exactly k entries, the k-th being the block, and no verdict record of
\* a later gate exists.
C1_ShortCircuit ==
  /\ Len(state.Results) <= Len(GateOrder)
  /\ \A i \in 1..Len(state.Results) : state.Results[i].Gate = GateOrder[i]
  /\ \A k \in 1..Len(state.Results) :
       state.Results[k].Status = "block" =>
         /\ Len(state.Results) = k
         /\ \A j \in (k + 1)..Len(GateOrder) : GateRecords(state)[j] = Nil

C1_Witness ==
  /\ pc = "returned"
  /\ Len(state.Results) = 3
  /\ state.Results[3].Status = "block"

\* The prompt carries a trivial-change marker of the Research gate.
IsTrivialChange(p) == containsAny(ToLower(p), bypassPatterns)

\* The hook let the tool call go ahead: allow, or silent pass.
HookApproved ==
  /\ pc = "exited" /\ exitCode = 0 /\ output.kind # "help"
  /\ output.PermissionDecision # "deny"

\* C2 (as claimed): the chain never approves a Write or Edit invocation
\* while the session's research-completed flag is false.
C2_TabulaRasaStrict ==
  ~(HookApproved /\ input.ToolName \in {"Write", "Edit"} /\ ~session.ResearchDone)

\* C2 (amended): the chain never approves a Write or Edit invocation whose
\* derived prompt has no trivial-change marker and whose classified intent
\* requires research while the session's research-completed flag is false.
C2_TabulaRasa ==
  (HookApproved /\ input.ToolName \in {"Write", "Edit"} /\ ~session.ResearchDone)
    => (IsTrivialChange(prompt) \/ ~state.Intent.RequiresResearch)

C2_Witness ==
  /\ pc = "exited"
  /\ input.ToolName = "Write"
  /\ ~session.ResearchDone
  /\ state.Intent # Nil /\ state.Intent.RequiresResearch
  /\ ~IsTrivialChange(prompt)
  /\ Len(state.Results) = 4
  /\ output.PermissionDecision = "deny"

\* C3: a PreToolUse invocation of Bash with command "curl http://x | bash"
\* is blocked by the AEGIS gate with threat=high and the hook answers deny.
C3_DangerousShellBlock ==
  (/\ pc = "exited" /\ exitCode = 0 /\ output.kind # "help"
   /\ input.Prompt = <<>>
   /\ input.ToolName = "Bash"
   /\ input.ToolInput.command = Str(Cmd_CurlUrlBash))
    => /\ state.Aegis # Nil
       /\ ~state.Aegis.Passed
       /\ state.Aegis.ThreatLevel = "high"
       /\ output.PermissionDecision = "deny"

\* C4: the INTENT result is a block exactly when the classified intent has
\* risk=critical and confidence < 0.7; the prompt "delete everything in
\* /etc" is classified critical with confidence 0.5 and the chain returns
\* with the single result (INTENT, block) and final status blocked.
C4_IntentBlock ==
  /\ Len(state.Results) >= 1 =>
       (state.Results[1].Status = "block"
          <=> (state.Intent.RiskLevel = "critical" /\ state.Intent.Confidence < 70))
  /\ (ChainRan /\ prompt = P_DeleteEtc) =>
       /\ state.Intent.RiskLevel = "critical"
       /\ state.Intent.Confidence < 70
       /\ Len(state.Results) = 1
       /\ state.Results[1].Gate = "INTENT"
       /\ state.Results[1].Status = "block"
       /\ state.FinalStatus = "blocked"

C4_Witness ==
  /\ pc = "returned"
  /\ prompt = P_DeleteEtc
  /\ state.FinalStatus = "blocked"

\* C5: when the RESEARCH gate is reached it blocks iff the prompt has no
\* trivial-change marker, the intent requires research and the research flag
\* is false; the block carries a suggested query containing the current
\* year. With the flag true it never blocks, and "implement webhook handler"
\* with the flag true passes all four gates (final status approved) whenever
\* the tool call itself is not stopped by CEO or AEGIS, as with no tool.
C5_ResearchGate ==
  (pc = "returned" /\ Len(state.Results) = 4) =>
    LET r == state.Results[4]
    IN /\ r.Gate = "RESEARCH"
       /\ r.Status = "block"
            <=> /\ ~IsTrivialChange(prompt)
                /\ state.Intent.RequiresResearch
                /\ ~session.ResearchDone
       /\ r.Status = "block" =>
            /\ state.Research.SuggestedQuery # <<>>
            /\ Contains(state.Research.SuggestedQuery, year)
            /\ r.NextAction = <<"WebSearch: ">> \o state.Research.SuggestedQuery
            /\ r.Context = [suggested_query |-> state.Research.SuggestedQuery]
       /\ session.ResearchDone => r.Status = "pass"
       /\ (prompt = P_Webhook /\ session.ResearchDone) =>
            /\ \A i \in 1..4 : state.Results[i].Status = "pass"
            /\ state.FinalStatus = "approved"

C5_NoToolReachesResearch ==
  (pc = "returned" /\ prompt = P_Webhook /\ input.ToolName = "") => Len(state.Results) = 4

C6_FinalStatus ==
  /\ IsBlocked(state) <=> HasBlock(state)
  /\ pc = "returned" =>
       LET n == Len(state.Results)
       IN /\ state.FinalStatus \in {"approved", "blocked"}
          /\ IsBlocked(state) =>
               /\ state.Results[n].Status = "block"
               /\ \A i \in 1..(n - 1) : state.Results[i].Status # "block"
               /\ GetBlockReason(state)
                    = <<state.Results[n].Gate, ": ">> \o state.Results[n].Reason
          /\ state.FinalStatus = "approved" <=> (n = 4 /\ ~HasBlock(state))

C6_Witness ==
  /\ pc = "returned"
  /\ state.FinalStatus = "approved"
  /\ \E i \in 1..Len(state.Results) : state.Results[i].Status = "warn"

\* C7: for Read, Write and Edit, a file_path whose lowercase form contains
\* a sensitive segment makes the security verdict fail with threat=high,
\* whatever the other fields of the tool input are.
C7_SensitivePathHigh ==
  (/\ state.Aegis # Nil
   /\ input.ToolName \in {"Read", "Write", "Edit"}
   /\ input.ToolInput.file_path.ok
   /\ containsAny(ToLower(input.ToolInput.file_path.v), sensitive))
    => (~state.Aegis.Passed /\ state.Aegis.ThreatLevel = "high")

\* C8: for the Task tool with an empty or absent agent type, once the CEO
\* gate has run the delegation verdict is unapproved with a blocker, the CEO
\* result is a block, and the chain stops there: exactly two results, final
\* status blocked, no AEGIS or RESEARCH verdict.
C8_TaskNeedsAgent ==
  (/\ input.ToolName = "Task"
   /\ (~input.ToolInput.subagent_type.ok \/ input.ToolInput.subagent_type.v = "")
   /\ InRunFull)
    => /\ Len(state.Results) <= 2
       /\ Len(state.Results) = 2 =>
            /\ ~state.CEO.Approved
            /\ state.CEO.Blockers = << <<"Task requires subagent_type">> >>
            /\ state.Results[2].Gate = "CEO"
            /\ state.Results[2].Status = "block"
            /\ state.Results[2].Reason = state.CEO.Blockers[1]
            /\ state.FinalStatus = "blocked"
            /\ state.Aegis = Nil /\ state.Research = Nil
       /\ (pc = "returned" /\ state.Results[1].Status # "block") => Len(state.Results) = 2

C8_Witness ==
  /\ pc = "returned"
  /\ input.ToolName = "Task"
  /\ ~input.ToolInput.subagent_type.ok
  /\ Len(state.Results) = 2
  /\ state.FinalStatus = "blocked"

\* C9: the hook's output is a deny exactly when the chain run ended
\* blocked; the deny is the structured PreToolUse envelope carrying the
\* blocking gate's name and reason, with exit code 0. A chain that is not
\* blocked yields allow with context if some gate warned, else no output.
C9_HookDecision ==
  /\ output.PermissionDecision = "deny" => (pc = "exited" /\ IsBlocked(state))
  /\ (pc = "exited" /\ IsBlocked(state)) =>
       LET n == Len(state.Results)
       IN /\ output.kind = "response"
          /\ output.HookEventName = "PreToolUse"
          /\ output.PermissionDecision = "deny"
          /\ output.PermissionDecisionReason
               = <<state.Results[n].Gate, ": ">> \o state.Results[n].Reason
          /\ exitCode = 0
  /\ (pc = "exited" /\ ~IsBlocked(state) /\ state.FinalStatus = "approved") =>
       IF \E i \in 1..Len(state.Results) : state.Results[i].Status = "warn"
       THEN /\ output.PermissionDecision = "allow"
            /\ output.AdditionalContext # <<>>
       ELSE output = NoOutput

C9_Witness ==
  /\ pc = "exited"
  /\ IsBlocked(state)
  /\ output.PermissionDecision = "deny"
  /\ \E i \in 1..Len(state.Results) : state.Results[i].Status = "warn"

\* C10: within RunFull every step leaves the verdict records of the other
\* gates untouched, writes a gate's own record only from nil and only in
\* that gate's step, and changes Results only by appending one result.
C10_Step ==
  InRunFull =>
    /\ \A g \in 1..Len(GateOrder) :
         GateRecords(state')[g] # GateRecords(state)[g] =>
           /\ pc = GatePc[g]
           /\ GateRecords(state)[g] = Nil
    /\ Len(state'.Results) \in {Len(state.Results), Len(state.Results) + 1}
    /\ SubSeq(state'.Results, 1, Len(state.Results)) = state.Results
    /\ Len(state'.Results) = Len(state.Results) + 1 =>
         \E g \in 1..Len(GateOrder) :
           pc = GatePc[g] /\ state'.Results[Len(state'.Results)].Gate = GateOrder[g]

C10_GateFrame == [][C10_Step]_vars

C10_Witness ==
  /\ pc = "returned"
  /\ \A g \in 1..Len(GateOrder) : GateRecords(state)[g] # Nil

\* C25 (as claimed): audit records are never rewritten: a step never removes,
\* modifies or replaces an audit file written before it, also when two
\* invocations of one session finish within the same clock second.
C25_Step ==
  \A f \in DOMAIN auditDir :
    auditDir[f] # TruncatedFile => (f \in DOMAIN auditDir' /\ auditDir'[f] = auditDir[f])

C25_AuditAppendOnly == [][C25_Step]_allVars

\* C30: a failure to persist the audit record (MkdirAll, marshalling, the
\* file write) does not change the decision: finalize returns the chain state
\* it was given whatever saveState met, and the hook's output and exit code
\* are those of that state.
C30_Step ==
  /\ pc = "finalize" => state' = state /\ pc' = "returned"
  /\ pc = "returned" => output' = Decide(state, year) /\ exitCode' = 0 /\ state' = state

C30_AuditFailureIgnored == [][C30_Step]_allVars

\* An invocation denied the action although no audit record is on disk.
C30_Witness ==
  /\ pc = "exited"
  /\ IsBlocked(state)
  /\ output.PermissionDecision = "deny"
  /\ auditDir = <<>>

(***************************************************************************)
(* properties of the DAG scheduler (dag/graph.go, dag/topo.go)             *)
(***************************************************************************)
BlocksOf(s, id) == {s.Nodes[id].Blocks[i] : i \in 1..Len(s.Nodes[id].Blocks)}

DepsOf(s, id) == {s.Nodes[id].DependsOn[i] : i \in 1..Len(s.Nodes[id].DependsOn)}

\* The nodes reachable from id through one or more blocks edges.
Descendants(s, id) ==
  LET RECURSIVE grow(_)
      grow(S) ==
        LET T == S \cup UNION {BlocksOf(s, x) \cap NodeIdsOf(s) : x \in S}
        IN IF T = S THEN S ELSE grow(T)
  IN grow(BlocksOf(s, id) \cap NodeIdsOf(s))

\* The step is a call UpdateNodeStatus(n, status) on an existing node n.
UpdateStep(status) ==
  /\ dagOp'.op = "UpdateNodeStatus"
  /\ dagOp'.status = status
  /\ dagOp'.a \in NodeIdsOf(dag)

\* C11 (as claimed): after UpdateNodeStatus(n, failed) every transitive
\* descendant of n that was non-terminal before the call is skipped, also
\* when it is reached only through an already-terminal node.
C11_Step ==
  UpdateStep(StatusFailed) =>
    \A d \in Descendants(dag, dagOp'.a) :
      ~IsTerminal(dag.Nodes[d].Status) => dag'.Nodes[d].Status = StatusSkipped

C11_FailSkipsDescendants == [][C11_Step]_allVars

AllDepsDone(s, id) == \A d \in DepsOf(s, id) : d \in NodeIdsOf(s) /\ s.Nodes[d].Status = StatusDone

\* C12 (as claimed): after UpdateNodeStatus(n, done) every child c of n is
\* ready if and only if every dependency of c is done.
C12_StepStrict ==
  UpdateStep(StatusDone) =>
    \A c \in BlocksOf(dag, dagOp'.a) :
      (dag'.Nodes[c].Status = StatusReady) <=> AllDepsDone(dag', c)

C12_ChildReadyIffDepsDone == [][C12_StepStrict]_allVars

\* C12 (amended): after UpdateNodeStatus(n, done) a child of n that was not
\* terminal before the call is ready when every one of its dependencies is
\* done and otherwise keeps the status it had; a child that was terminal keeps
\* its status.
C12_Step ==
  UpdateStep(StatusDone) =>
    \A c \in BlocksOf(dag, dagOp'.a) :
      dag'.Nodes[c].Status =
        IF ~IsTerminal(dag.Nodes[c].Status) /\ AllDepsDone(dag', c)
        THEN StatusReady
        ELSE dag.Nodes[c].Status

C12_ChildPromotion == [][C12_Step]_allVars

\* A child with two dependencies has just been promoted by the second done.
C12_Witness ==
  /\ dagOp.op = "UpdateNodeStatus"
  /\ dagOp.status = StatusDone
  /\ dagOp.a \in NodeIdsOf(dag)
  /\ \E c \in BlocksOf(dag, dagOp.a) :
       /\ dag.Nodes[c].Status = StatusReady
       /\ Cardinality(DepsOf(dag, c)) = 2
       /\ AllDepsDone(dag, c)

\* The step is a call AddEdge(depId, nodeId) between two existing nodes.
AddEdgeStep ==
  /\ dagOp'.op = "AddEdge"
  /\ dagOp'.a \in NodeIdsOf(dag)
  /\ dagOp'.b \in NodeIdsOf(dag)

\* C13: AddEdge(depId, nodeId) between two existing nodes is rejected if and
\* only if depId equals nodeId or depId is already reachable from nodeId
\* through blocks edges; every other edge is accepted and recorded on both
\* nodes, and a rejected call leaves the DAG as it was.
C13_Step ==
  AddEdgeStep =>
    LET depID == dagOp'.a
        nodeID == dagOp'.b
        cyclic == depID = nodeID \/ depID \in Descendants(dag, nodeID)
    IN /\ (dagOp'.err # "") <=> cyclic
       /\ cyclic => dag' = dag /\ dagOp'.err = "cycle detected"
       /\ ~cyclic =>
            /\ dag'.Nodes[nodeID].DependsOn = Append(dag.Nodes[nodeID].DependsOn, depID)
            /\ dag'.Nodes[depID].Blocks = Append(dag.Nodes[depID].Blocks, nodeID)

C13_RejectsExactlyCycles == [][C13_Step]_allVars

\* An edge closing a path of two edges has just been rejected.
C13_Witness ==
  /\ dagOp.op = "AddEdge"
  /\ dagOp.err = "cycle detected"
  /\ dagOp.a # dagOp.b
  /\ dagOp.a \notin BlocksOf(dag, dagOp.b)
  /\ dagOp.a \in Descendants(dag, dagOp.b)

\* C14: in every state reached by AddNode, AddEdge and UpdateNodeStatus calls
\* the edge relation is acyclic: no node is reachable from itself through
\* one or more blocks edges.
C14_Acyclic == \A id \in NodeIdsOf(dag) : id \notin Descendants(dag, id)

\* A path of two edges stands, a back edge has just been refused, and a
\* status update has been made.
C14_Witness ==
  /\ dagOp.op = "AddEdge"
  /\ dagOp.err = "cycle detected"
  /\ \E x, y, z \in NodeIdsOf(dag) : y \in BlocksOf(dag, x) /\ z \in BlocksOf(dag, y)
  /\ \E id \in NodeIdsOf(dag) : dag.Nodes[id].Status = StatusDone

\* The number of times x occurs in the list seq.
Occurrences(seq, x) == Cardinality({i \in 1..Len(seq) : seq[i] = x})

\* C15: in every state reached by AddNode and AddEdge calls, accepted or
\* rejected, d occurs in n's depends-on list exactly as many times as n
\* occurs in d's blocks list, and every id in either list is an existing node.
C15_AdjacencyAgrees ==
  /\ \A n \in NodeIdsOf(dag) :
       DepsOf(dag, n) \subseteq NodeIdsOf(dag) /\ BlocksOf(dag, n) \subseteq NodeIdsOf(dag)
  /\ \A n \in NodeIdsOf(dag), d \in NodeIdsOf(dag) :
       Occurrences(dag.Nodes[n].DependsOn, d) = Occurrences(dag.Nodes[d].Blocks, n)

\* An edge has been accepted twice and a later AddEdge call was rejected.
C15_Witness ==
  /\ dagOp.op = "AddEdge"
  /\ dagOp.err # ""
  /\ \E n \in NodeIdsOf(dag), d \in NodeIdsOf(dag) :
       Occurrences(dag.Nodes[n].DependsOn, d) = 2

C16_Step ==
  \A c \in NodeIdsOf(dag) :
    ~(dagOp'.op = "UpdateNodeStatus" /\ dagOp'.a = c) =>
      ((dag.Nodes[c].Status # StatusReady /\ dag'.Nodes[c].Status = StatusReady)
        <=> /\ dagOp'.op = "UpdateNodeStatus"
            /\ dagOp'.status = StatusDone
            /\ dagOp'.a \in NodeIdsOf(dag)
            /\ c \in BlocksOf(dag, dagOp'.a)
            /\ ~IsTerminal(dag.Nodes[c].Status)
            /\ dag.Nodes[c].Status # StatusReady
            /\ AllDepsDone(dag', c))

SkipReach(s, id) ==
  LET open(S) == {x \in S \cap NodeIdsOf(s) : ~IsTerminal(s.Nodes[x].Status)}
      RECURSIVE grow(_)
      grow(S) ==
        LET T == S \cup open(UNION {BlocksOf(s, x) : x \in S})
        IN IF T = S THEN S ELSE grow(T)
  IN grow(open(BlocksOf(s, id)))

C17_Step ==
  \A c \in NodeIdsOf(dag) :
    ~(dagOp'.op = "UpdateNodeStatus" /\ dagOp'.a = c) =>
      LET becomes == dag.Nodes[c].Status # StatusSkipped /\ dag'.Nodes[c].Status = StatusSkipped
      IN /\ becomes <=> (UpdateStep(StatusFailed) /\ c \in SkipReach(dag, dagOp'.a))
         /\ becomes =>
              \E d \in DepsOf(dag', c) : dag'.Nodes[d].Status \in {StatusFailed, StatusSkipped}

ClaimedDAGStatus(s) ==
  LET ids == NodeIdsOf(s)
  IN IF (\A id \in ids : IsTerminal(s.Nodes[id].Status))
        /\ (\E id \in ids : s.Nodes[id].Status # StatusDone)
     THEN DAGFailed
     ELSE IF ids # {} /\ (\A id \in ids : s.Nodes[id].Status = StatusDone)
     THEN DAGComplete
     ELSE DAGActive

\* C18 (as claimed): after any sequence of AddNode, AddEdge and
\* UpdateNodeStatus calls the overall status is failed iff every node is
\* terminal and at least one is not done, complete iff the DAG is non-empty
\* and every node is done, and active otherwise.
C18_OverallStatus == dag.Status = ClaimedDAGStatus(dag)

\* C19: IsComplete returns true if and only if the DAG has at least one node
\* and every node's status is done, failed or skipped; an empty DAG is not
\* complete.
C19_IsComplete ==
  IsComplete(dag) <=>
    /\ NodeIdsOf(dag) # {}
    /\ \A id \in NodeIdsOf(dag) :
         dag.Nodes[id].Status \in {StatusDone, StatusFailed, StatusSkipped}

\* A DAG whose nodes ended done, failed and skipped is complete.
C19_Witness ==
  /\ IsComplete(dag)
  /\ \E x, y, z \in NodeIdsOf(dag) :
       /\ dag.Nodes[x].Status = StatusDone
       /\ dag.Nodes[y].Status = StatusFailed
       /\ dag.Nodes[z].Status = StatusSkipped

\* The ids TopoLevels returned in the level with index k.
LevelNodes(levels, k) == {levels[k + 1].Nodes[i] : i \in 1..Len(levels[k + 1].Nodes)}

\* The places (level index, position) at which id was returned.
LevelPlaces(levels, id) ==
  {p \in UNION {{<<k, i>> : i \in 1..Len(levels[k + 1].Nodes)} : k \in 0..(Len(levels) - 1)} :
     levels[p[1] + 1].Nodes[p[2]] = id}

\* The index of the level that holds id.
LevelIndex(levels, id) == CHOOSE k \in 0..(Len(levels) - 1) : id \in LevelNodes(levels, k)

\* The diamond a -> c, b -> d, c -> e, d -> e.
IsDiamond(s) ==
  /\ NodeIdsOf(s) = {"a", "b", "c", "d", "e"}
  /\ s.Nodes["a"].DependsOn = <<>>
  /\ s.Nodes["b"].DependsOn = <<>>
  /\ s.Nodes["c"].DependsOn = <<"a">>
  /\ s.Nodes["d"].DependsOn = <<"b">>
  /\ DepsOf(s, "e") = {"c", "d"}
  /\ Len(s.Nodes["e"].DependsOn) = 2

\* C20: for every DAG built by accepted AddNode/AddEdge calls (duplicate
\* edges included) TopoLevels returns no error, places every node in exactly
\* one level, puts in level 0 exactly the nodes with no dependencies and in
\* level k > 0 exactly the nodes whose dependencies all lie in levels below k
\* with at least one in level k-1, writes that index to node.Level and sets
\* MaxLevel to the index of the last level; the diamond gives {a,b}, {c,d},
\* {e} and MaxLevel 2.
C20_TopoLevels ==
  dagOp.op = "TopoLevels" =>
    LET levels == dagOp.levels
        ids == NodeIdsOf(dag)
        lvl(id) == LevelIndex(levels, id)
    IN /\ dagOp.err = ""
       /\ \A k \in 1..Len(levels) : levels[k].Level = k - 1
       /\ \A k \in 0..(Len(levels) - 1) : LevelNodes(levels, k) \subseteq ids
       /\ \A id \in ids : Cardinality(LevelPlaces(levels, id)) = 1
       /\ \A id \in ids :
            /\ (lvl(id) = 0) <=> (DepsOf(dag, id) = {})
            /\ lvl(id) > 0 =>
                 /\ \A d \in DepsOf(dag, id) : lvl(d) < lvl(id)
                 /\ \E d \in DepsOf(dag, id) : lvl(d) = lvl(id) - 1
            /\ dag.Nodes[id].Level = lvl(id)
       /\ dag.MaxLevel = Len(levels) - 1
       /\ IsDiamond(dag) =>
            /\ Len(levels) = 3
            /\ LevelNodes(levels, 0) = {"a", "b"}
            /\ LevelNodes(levels, 1) = {"c", "d"}
            /\ LevelNodes(levels, 2) = {"e"}
            /\ dag.MaxLevel = 2

\* The diamond has been levelized.
C20_Witness ==
  /\ dagOp.op = "TopoLevels"
  /\ dagOp.err = ""
  /\ IsDiamond(dag)
  /\ Len(dagOp.levels) = 3

\* C21: a rejected construction call returns an error and leaves the DAGState
\* unchanged: AddNode with an id that already exists, AddEdge with an unknown
\* endpoint, AddEdge that would close a cycle.
C21_Step ==
  /\ (dagOp'.op = "AddNode" /\ dagOp'.a \in NodeIdsOf(dag))
       => dagOp'.err # "" /\ dag' = dag
  /\ (dagOp'.op = "AddEdge" /\ (dagOp'.a \notin NodeIdsOf(dag) \/ dagOp'.b \notin NodeIdsOf(dag)))
       => dagOp'.err # "" /\ dag' = dag
  /\ (dagOp'.op = "AddEdge" /\ dagOp'.a \in NodeIdsOf(dag) /\ dagOp'.b \in NodeIdsOf(dag)
        /\ (dagOp'.a = dagOp'.b \/ dagOp'.a \in Descendants(dag, dagOp'.b)))
       => dagOp'.err # "" /\ dag' = dag
  /\ (dagOp'.op \in {"AddNode", "AddEdge"} /\ dagOp'.err # "") => dag' = dag

C21_RejectedLeavesState == [][C21_Step]_allVars

\* A node that has edges and a status of its own was offered again and
\* refused.
C21_Witness ==
  /\ dagOp.op = "AddNode"
  /\ dagOp.err # ""
  /\ dagOp.a \in NodeIdsOf(dag)
  /\ dag.Nodes[dagOp.a].DependsOn # <<>>
  /\ dag.Nodes[dagOp.a].Status = StatusDone

\* C22 (as claimed): UpdateNodeStatus on a node that is already done, failed
\* or skipped leaves that node's status, every other node's status and the
\* overall status unchanged, whatever status is passed.
C22_Step ==
  (dagOp'.op = "UpdateNodeStatus" /\ dagOp'.a \in NodeIdsOf(dag)
     /\ IsTerminal(dag.Nodes[dagOp'.a].Status))
    => /\ \A id \in NodeIdsOf(dag) : dag'.Nodes[id].Status = dag.Nodes[id].Status
       /\ dag'.Status = dag.Status

C23_Step ==
  (saver = Nil /\ storeOp'.op = "Load" /\ storeOp' # storeOp /\ storeOp'.sid = storeOp.sid)
    => /\ (storeOp.op = "Save" /\ storeOp.err = "" /\ ~storeOp.overlapped)
            => storeOp'.err = "" /\ storeOp'.state = storeOp.state
       /\ storeOp.op = "Delete" => storeOp'.err # "" /\ storeOp'.state = Nil

C23_SaveLoadRoundTrip == [][C23_Step]_allVars

\* A state with edges, levels, a task id, a skill and metadata came back from
\* Load right after its Save.
C23_Witness ==
  /\ storeOp.op = "Load"
  /\ storeOp.err = ""
  /\ storeOp.state = StoreChain
  /\ storeOp.state.Nodes["b"].DependsOn = <<"a">>
  /\ storeOp.state.Nodes["b"].Metadata = [node_id |-> "b"]
  /\ storeOp.state.Nodes["b"].Level = 1

\* C24 (as claimed): a Load never finds an empty or partially written state
\* file: what it reads is a complete file or no file.
C24_LoadSeesWholeFile ==
  storeOp.op = "Load" => storeOp.seen \in {"absent", "all"}

(***************************************************************************)
(* Claims about the policy store                                           *)
(***************************************************************************)
\* C26 (as claimed): the policy cache never returns a stale value: a call
\* whose first check found the cache expired or absent returns a policy read
\* from the file after that check, and every returned policy was read from
\* disk less than one TTL before the call's last freshness check.
C26_ReadWithinTTL ==
  policyOp.caller # "" =>
    /\ policyOp.expired => policyOp.result.readAt >= policyOp.startAt
    /\ policyOp.checkAt - policyOp.result.readAt < CacheTTL

\* C26 (amended): a call whose first check found the cache expired or absent
\* returns a policy read from the file after that check, and every returned
\* policy was stored in the cache less than one TTL before the call's last
\* freshness check.
C26_StoredWithinTTL ==
  policyOp.caller # "" =>
    /\ policyOp.expired => policyOp.result.readAt >= policyOp.startAt
    /\ policyOp.checkAt - policyOp.result.storedAt < CacheTTL

\* A call found a cached policy expired and returned one read after that.
C26_Witness ==
  /\ policyOp.caller # ""
  /\ policyOp.expired
  /\ policyOp.startAt >= CacheTTL
  /\ policyOp.result.readAt >= policyOp.startAt

\* C27: within one TTL window the policy file is read at most once.  A call
\* reads the file only with the write lock held and only after its check
\* under that lock found the cache absent or at least one TTL old, so never
\* while another caller reads or stores; a call whose check found the cache
\* fresh returns a cached policy (the one its check saw or the one cached
\* when it returns) without reading; and of several callers
\* that found the cache expired, those that did not read return the value
\* stored after their first check by the one that did.
C27_Step ==
  /\ \A c \in Callers :
       (loaders[c].pc = "read" /\ loaders'[c].pc = "store")
         => /\ gatesConfigMu = c
            /\ \A d \in Callers \ {c} : loaders[d].pc \notin {"read", "store"}
            /\ ~CacheFresh(gatesConfig, gatesConfigTime, loaders[c].checkAt)
            /\ gatesConfig # Nil => now - gatesConfig.readAt >= CacheTTL
  /\ (policyOp' # policyOp /\ ~policyOp'.read)
       => /\ policyOp'.result \in {gatesConfig, loaders[policyOp'.caller].cfg}
          /\ policyOp'.result # Nil
          /\ policyOp'.expired => policyOp'.result.storedAt >= policyOp'.startAt

C27_ReadOncePerWindow == [][C27_Step]_allVars

\* Two callers found the cache expired; one read the file and the other
\* returned what the first had stored.
C27_Witness ==
  /\ policyOp.caller # ""
  /\ policyOp.expired
  /\ ~policyOp.read
  /\ policyOp.startAt >= CacheTTL
  /\ policyOp.result.storedAt >= policyOp.startAt

\* Probes: a path, an extension, a command and a write path that the
\* built-in defaults block, and a path the defaults warn about.
Path_Env == <<"a", "p", "p", "/", ".", "e", "n", "v">>

DefaultsScreen(cfg) ==
  /\ IsBlockedPath(cfg, Path_Passwd)
  /\ IsBlockedExtension(cfg, Path_Key)
  /\ IsWarnPath(cfg, Path_Env)
  /\ IsBlockedCommand(cfg, Cmd_RmRf)
  /\ IsBlockedWritePath(cfg, Path_Passwd)

\* C28: when the policy file is missing, unreadable or not valid JSON, the
\* load returns a policy (there is no error to return) that is exactly the
\* built-in default policy: the read, shell and write screens are enabled
\* with their default block lists, which block the probes.
C28_DefaultsOnFailure ==
  (policyOp.caller # "" /\ policyOp.result.from.kind \in {"missing", "unreadable", "not json"})
    => /\ policyOp.result.cfg = getDefaultGatesConfig
       /\ policyOp.result.cfg.Read.Enabled
       /\ policyOp.result.cfg.Bash.Enabled
       /\ policyOp.result.cfg.Write.Enabled
       /\ Len(policyOp.result.cfg.Read.BlockedPaths) > 0
       /\ Len(policyOp.result.cfg.Bash.BlockedCommands) > 0
       /\ Len(policyOp.result.cfg.Write.BlockedPaths) > 0
       /\ DefaultsScreen(policyOp.result.cfg)

\* A policy file with a document was replaced by bytes that are not JSON, and
\* the next load after the TTL returned the defaults.
C28_Witness ==
  /\ policyOp.caller # ""
  /\ policyOp.read
  /\ policyOp.result.from = FileNotJSON
  /\ policyOp.result.readAt >= CacheTTL
  /\ policyOp.result.cfg = getDefaultGatesConfig

\* The lists of the read, shell and write sections: section field, section
\* key, list field, list key.
PolicyLists ==
  {<<"Read", "read", "BlockedPaths", "blocked_paths">>,
   <<"Read", "read", "BlockedExtensions", "blocked_extensions">>,
   <<"Read", "read", "WarnExtensions", "warn_extensions">>,
   <<"Read", "read", "WarnPatterns", "warn_patterns">>,
   <<"Bash", "bash", "BlockedCommands", "blocked_commands">>,
   <<"Bash", "bash", "BlockedPatterns", "blocked_patterns">>,
   <<"Bash", "bash", "WarnCommands", "warn_commands">>,
   <<"Write", "write", "BlockedPaths", "blocked_paths">>,
   <<"Write", "write", "ProtectedFiles", "protected_files">>,
   <<"Write", "write", "SecretPatterns", "secret_patterns">>}

\* C29 (as claimed): a policy loaded from a file that parses has, for every
\* list of every section that the file leaves unset, the default list; and
\* when the file omits the read, shell or write section, the loaded policy
\* blocks and warns about whatever the defaults do for that section.
C29_MergedWithDefaults ==
  (policyOp.caller # "" /\ policyOp.result.from.kind = "json")
    => LET doc == policyOp.result.from.doc
           cfg == policyOp.result.cfg
           d == getDefaultGatesConfig
       IN /\ \A l \in PolicyLists :
               (l[2] \notin DOMAIN doc \/ l[4] \notin DOMAIN doc[l[2]])
                 => cfg[l[1]][l[3]] = d[l[1]][l[3]]
          /\ "read" \notin DOMAIN doc
               => /\ IsBlockedPath(cfg, Path_Passwd)
                  /\ IsBlockedExtension(cfg, Path_Key)
                  /\ IsWarnPath(cfg, Path_Env)
          /\ "bash" \notin DOMAIN doc => IsBlockedCommand(cfg, Cmd_RmRf)
          /\ "write" \notin DOMAIN doc => IsBlockedWritePath(cfg, Path_Passwd)

(***************************************************************************)
(* Further claims about the verification chain                             *)
(***************************************************************************)
\* The warning CEOValidate gives for an agent the intent does not suggest.
AgentWarning(agentType, intent) ==
  <<"Agent '", agentType, "' may not be optimal for intent '", intent.Type, "'">>

HasWarning(ceo, w) == \E i \in 1..Len(ceo.Warnings) : ceo.Warnings[i] = w

\* C31 (as claimed): once the CEO gate has run with a non-empty agent type
\* that is not among the intent's suggested agents, also when the intent
\* suggests no agent at all, the delegation verdict carries the warning that
\* the agent may not be optimal and the CEO result is warn.
C31_UnsuggestedAgentWarns ==
  (/\ InRunFull
   /\ state.CEO # Nil
   /\ agentTypeOf(input.ToolInput) # ""
   /\ ~containsString(state.Intent.RequiredAgents, agentTypeOf(input.ToolInput)))
    => /\ HasWarning(state.CEO, AgentWarning(agentTypeOf(input.ToolInput), state.Intent))
       /\ state.Results[2].Gate = "CEO"
       /\ state.Results[2].Status = "warn"

\* C31 (amended): the same when the intent suggests at least one agent.
C31_UnsuggestedAgentWarnsIfAny ==
  (/\ InRunFull
   /\ state.CEO # Nil
   /\ agentTypeOf(input.ToolInput) # ""
   /\ Len(state.Intent.RequiredAgents) > 0
   /\ ~containsString(state.Intent.RequiredAgents, agentTypeOf(input.ToolInput)))
    => /\ HasWarning(state.CEO, AgentWarning(agentTypeOf(input.ToolInput), state.Intent))
       /\ state.Results[2].Gate = "CEO"
       /\ state.Results[2].Status = "warn"

\* The chain ran for an agent the intent does not suggest among its agents.
C31_Witness ==
  /\ pc = "returned"
  /\ state.CEO # Nil
  /\ agentTypeOf(input.ToolInput) # ""
  /\ Len(state.Intent.RequiredAgents) > 0
  /\ ~containsString(state.Intent.RequiredAgents, agentTypeOf(input.ToolInput))
  /\ state.Results[2].Status = "warn"

\* What each keyword bucket of AnalyzeIntent sets when it matches, in the
\* order the buckets are tried ("" where the bucket leaves the field alone).
BucketSets ==
  <<[Type |-> "implement", RiskLevel |-> "",         Complexity |-> "moderate", RequiresResearch |-> TRUE],
    [Type |-> "debug",     RiskLevel |-> "",         Complexity |-> "moderate", RequiresResearch |-> FALSE],
    [Type |-> "refactor",  RiskLevel |-> "medium",   Complexity |-> "complex",  RequiresResearch |-> TRUE],
    [Type |-> "deploy",    RiskLevel |-> "high",     Complexity |-> "complex",  RequiresResearch |-> TRUE],
    [Type |-> "security",  RiskLevel |-> "high",     Complexity |-> "",         RequiresResearch |-> TRUE],
    [Type |-> "",          RiskLevel |-> "critical", Complexity |-> "complex",  RequiresResearch |-> FALSE]>>

RiskRank(r) ==
  IF r = "critical" THEN 3 ELSE IF r = "high" THEN 2 ELSE IF r = "medium" THEN 1 ELSE 0

ComplexityRank(c) == IF c = "complex" THEN 2 ELSE IF c = "moderate" THEN 1 ELSE 0

MaxOf(S) == IF S = {} THEN 0 ELSE CHOOSE x \in S : \A y \in S : y <= x

MatchingBuckets(p) ==
  {i \in 1..Len(BucketKeywords) : containsAny(ToLower(p), BucketKeywords[i])}

TypedBuckets(p) == {i \in MatchingBuckets(p) : BucketSets[i].Type # ""}

IntentGateRan == pc \in {"ceo", "finalize"} /\ state.Intent # Nil /\ Len(state.Results) = 1

\* C32: the intent of a prompt accumulates over the matching buckets: the
\* type is that of the last matching typed bucket (general if none), the
\* risk and the complexity are the strongest any matching bucket sets,
\* research is required iff a matching bucket requires it, and a destructive
\* keyword makes the risk critical and leaves the type alone.
C32_IntentAccumulates ==
  IntentGateRan =>
    LET M == MatchingBuckets(prompt)
        T == TypedBuckets(prompt)
        i == state.Intent
    IN /\ i.Type = IF T = {} THEN "general" ELSE BucketSets[MaxOf(T)].Type
       /\ RiskRank(i.RiskLevel) = MaxOf({RiskRank(BucketSets[b].RiskLevel) : b \in M})
       /\ i.RiskLevel \in {"low", "medium", "high", "critical"}
       /\ ComplexityRank(i.Complexity) = MaxOf({ComplexityRank(BucketSets[b].Complexity) : b \in M})
       /\ i.Complexity \in {"simple", "moderate", "complex"}
       /\ i.RequiresResearch = (\E b \in M : BucketSets[b].RequiresResearch)
       /\ Len(BucketSets) \in M => i.RiskLevel = "critical"

\* A prompt with a refactor, a security and a destructive keyword was
\* classified, and another bucket than the last matching one decided a field.
C32_Witness ==
  /\ IntentGateRan
  /\ {3, 5, 6} \subseteq MatchingBuckets(prompt)
  /\ state.Intent.Type = "security"
  /\ state.Intent.Complexity = "complex"
  /\ state.Intent.RiskLevel = "critical"

\* C37: a prompt that matches a typed bucket gets a confidence of at least
\* 0.8 and passes the intent gate, whatever its risk; a prompt the intent
\* gate blocks is of type general.
C37_TypedPromptPasses ==
  IntentGateRan =>
    /\ TypedBuckets(prompt) # {} =>
         /\ state.Intent.Confidence >= 80
         /\ state.Results[1].Status = "pass"
         /\ pc = "ceo"
    /\ state.Results[1].Status = "block" => state.Intent.Type = "general"

\* A typed prompt with a destructive keyword went through the intent gate
\* with risk critical.
C37_Witness ==
  /\ IntentGateRan
  /\ TypedBuckets(prompt) # {}
  /\ state.Intent.RiskLevel = "critical"
  /\ state.Intent.Confidence = 80
  /\ state.Results[1].Status = "pass"

\* The intent gate blocked a prompt.
C37_WitnessBlocked ==
  /\ IntentGateRan
  /\ state.Results[1].Status = "block"

(***************************************************************************)
(* Properties of the dispatch directive                                    *)
(***************************************************************************)
DirectiveBuilt == dagOp.op = "BuildParallelDispatch"

\* The lines of the directive that open a task section, in order.
TaskHeaderLines(out) ==
  SelectSeq([l \in 1..Len(out) |-> l],
            LAMBDA l : Len(out[l]) > 0 /\ out[l][1] = "[TASK:")

MetadataLines(out) ==
  SelectSeq([l \in 1..Len(out) |-> l],
            LAMBDA l : Len(out[l]) > 0 /\ out[l][1] = "metadata: {\"dag_node_id\": \"")

EndsWith(out, tail) ==
  /\ Len(out) >= Len(tail)
  /\ SubSeq(out, Len(out) - Len(tail) + 1, Len(out)) = tail

\* C33: the directive of a wave states the number of nodes of the wave, has
\* one task section per node of the wave, in order, each with the node's id
\* in its metadata line, and ends with the after-level note iff the level of
\* the wave is below the maximum level.
C33_DirectiveMatchesWave ==
  DirectiveBuilt =>
    LET out   == dagOp.out
        nodes == dagOp.level.Nodes
        hs    == TaskHeaderLines(out)
        ms    == MetadataLines(out)
    IN /\ \E l \in 1..Len(out) : out[l] = <<"count: ", ToString(Len(nodes))>>
       /\ Cardinality({l \in 1..Len(out) : Len(out[l]) > 0 /\ out[l][1] = "count: "}) = 1
       /\ Len(hs) = Len(nodes)
       /\ Len(ms) = Len(nodes)
       /\ \A k \in 1..Len(nodes) :
            /\ out[hs[k]] = <<"[TASK:", nodes[k].ID, "]">>
            /\ out[ms[k]] = <<"metadata: {\"dag_node_id\": \"", nodes[k].ID, "\"}">>
            /\ hs[k] < ms[k]
            /\ k < Len(nodes) => ms[k] < hs[k + 1]
       /\ EndsWith(out, AfterLevel) <=> dagOp.level.Level < dagOp.maxLevel
       /\ (\E l \in 1..Len(out) : out[l] = AfterLevel[1]) <=> dagOp.level.Level < dagOp.maxLevel

\* A directive of two nodes was built for a level below the maximum.
C33_Witness ==
  /\ DirectiveBuilt
  /\ Len(dagOp.level.Nodes) = 2
  /\ dagOp.level.Nodes[1].ID # dagOp.level.Nodes[2].ID
  /\ dagOp.level.Level < dagOp.maxLevel
  /\ EndsWith(dagOp.out, AfterLevel)

\* A directive was built for the last level, without the note.
C33_WitnessLast ==
  /\ DirectiveBuilt
  /\ Len(dagOp.level.Nodes) > 0
  /\ dagOp.level.Level = dagOp.maxLevel
  /\ ~EndsWith(dagOp.out, AfterLevel)

(***************************************************************************)
(* Properties of the subagent gate                                         *)
(***************************************************************************)
UnknownAgent(a) == a # "" /\ ~isBuiltinAgent(a) /\ ~IsValidAgent(a)

\* C34: a run of the gate on SubagentStart emits the start context only for
\* an agent type that is empty, built-in or valid, and, if it is an engineer
\* type, only with the research flag set; an unknown type is blocked as
\* unknown whatever the research flag, an engineer without research is
\* blocked for research otherwise; a run on SubagentStop never blocks.
C34_Step ==
  (pc = "subagent" /\ pc' = "exited") =>
    LET a == input.AgentType
    IN /\ input.HookEventName = "SubagentStart" =>
            /\ output'.kind = "SubagentStart" =>
                 /\ ~UnknownAgent(a)
                 /\ ~(isEngineerAgent(a) /\ ~session.ResearchDone)
            /\ UnknownAgent(a) =>
                 /\ output'.kind = "block"
                 /\ output'.text = <<"unknown_agent_type:", a>>
            /\ (~UnknownAgent(a) /\ isEngineerAgent(a) /\ ~session.ResearchDone) =>
                 /\ output'.kind = "block"
                 /\ output'.text[1] = "engineer_subagent_requires_research:agent:"
            /\ (~UnknownAgent(a) /\ ~(isEngineerAgent(a) /\ ~session.ResearchDone)) =>
                 output'.kind = "SubagentStart"
       /\ input.HookEventName = "SubagentStop" => output'.kind = "SubagentStop"
       /\ output'.kind \in {"SubagentStart", "SubagentStop"} =>
            output'.kind = input.HookEventName

C34_SubagentGate == [][C34_Step]_allVars

\* An engineer known on disk was refused for want of research.
C34_Witness ==
  /\ pc = "exited"
  /\ input.HookEventName = "SubagentStart"
  /\ input.AgentType = "backend-engineer"
  /\ ~session.ResearchDone
  /\ output.kind = "block"
  /\ output.text[1] = "engineer_subagent_requires_research:agent:"

\* An engineer without a definition was refused as unknown, research not done.
C34_WitnessUnknown ==
  /\ pc = "exited"
  /\ input.HookEventName = "SubagentStart"
  /\ input.AgentType = "ghost-engineer"
  /\ ~session.ResearchDone
  /\ output.kind = "block"
  /\ output.text[1] = "unknown_agent_type:"

\* An engineer was started after research.
C34_WitnessStarted ==
  /\ pc = "exited"
  /\ input.HookEventName = "SubagentStart"
  /\ input.AgentType = "backend-engineer"
  /\ output.kind = "SubagentStart"

(***************************************************************************)
(* Further properties of the status propagation                            *)
(***************************************************************************)
\* The position of a status in the lifecycle of a node.
LifecycleRank(st) ==
  IF st = StatusPending THEN 0
  ELSE IF st = StatusReady THEN 1
  ELSE IF st = StatusDispatched THEN 2
  ELSE IF st = StatusRunning THEN 3
  ELSE 4

\* C35 (as claimed): replaying UpdateNodeStatus(n, done) on a node that is
\* already done moves no other node backwards in its lifecycle; a child that
\* is dispatched or running stays so.
C35_Step ==
  (/\ dagOp'.op = "UpdateNodeStatus"
   /\ dagOp'.status = StatusDone
   /\ dagOp'.a \in NodeIdsOf(dag)
   /\ dag.Nodes[dagOp'.a].Status = StatusDone)
    => \A m \in NodeIdsOf(dag) \ {dagOp'.a} :
         LifecycleRank(dag'.Nodes[m].Status) >= LifecycleRank(dag.Nodes[m].Status)

C35_ReplayKeepsChildren == [][C35_Step]_allVars

\* C36: UpdateNodeStatus(n, s) on a known n sets the status of n and
\* otherwise changes the status only of nodes that were not terminal and are
\* children of n (s = done) or descendants of n (s = failed); it changes no
\* other field of a node, no node set and no MaxLevel; on an unknown n it
\* changes nothing.
C36_Step ==
  dagOp'.op = "UpdateNodeStatus" =>
    LET n == dagOp'.a
        s == dagOp'.status
    IN IF n \notin NodeIdsOf(dag) THEN dag' = dag
       ELSE /\ NodeIdsOf(dag') = NodeIdsOf(dag)
            /\ [dag' EXCEPT !.Nodes = dag.Nodes, !.Status = dag.Status] = dag
            /\ dag'.Nodes[n].Status = s
            /\ \A m \in NodeIdsOf(dag) :
                 /\ [dag'.Nodes[m] EXCEPT !.Status = dag.Nodes[m].Status] = dag.Nodes[m]
                 /\ (m # n /\ dag'.Nodes[m].Status # dag.Nodes[m].Status) =>
                      /\ ~IsTerminal(dag.Nodes[m].Status)
                      /\ \/ s = StatusDone /\ m \in BlocksOf(dag, n)
                         \/ s = StatusFailed /\ m \in Descendants(dag, n)

C36_PropagationFrame == [][C36_Step]_allVars

\* A node was marked failed: one of its children was done and is still done,
\* another node was skipped by the propagation.
C36_Witness ==
  /\ dagOp.op = "UpdateNodeStatus"
  /\ dagOp.status = StatusFailed
  /\ dagOp.a \in NodeIdsOf(dag)
  /\ \E m \in BlocksOf(dag, dagOp.a) : dag.Nodes[m].Status = StatusDone
  /\ \E m \in Descendants(dag, dagOp.a) : dag.Nodes[m].Status = StatusSkipped

(***************************************************************************)
(* Further properties of the levelization                                  *)
(***************************************************************************)
\* C38: a run of TopoLevels changes nothing of the DAG but the Level of its
\* nodes and MaxLevel, and a run on the graph a former run left, whatever the
\* order the zero in-degree nodes come in, changes nothing at all.
C38_Step ==
  dagOp'.op = "TopoLevels" =>
    /\ NodeIdsOf(dag') = NodeIdsOf(dag)
    /\ [dag' EXCEPT !.Nodes = dag.Nodes, !.MaxLevel = dag.MaxLevel] = dag
    /\ \A m \in NodeIdsOf(dag) :
         [dag'.Nodes[m] EXCEPT !.Level = dag.Nodes[m].Level] = dag.Nodes[m]
    /\ dagOp.op = "TopoLevels" =>
         /\ dag' = dag
         /\ Len(dagOp'.levels) = Len(dagOp.levels)
         /\ \A l \in 1..Len(dagOp.levels) :
              {dagOp'.levels[l].Nodes[k] : k \in 1..Len(dagOp'.levels[l].Nodes)}
                = {dagOp.levels[l].Nodes[k] : k \in 1..Len(dagOp.levels[l].Nodes)}

C38_LevelsOnlyAndIdempotent == [][C38_Step]_allVars

\* A graph of three levels with two roots was levelized a second time.
C38_Witness ==
  /\ dagOp.op = "TopoLevels"
  /\ dagOp.a = "again"
  /\ dagOp.err = ""
  /\ dag.MaxLevel = 2
  /\ Len(dagOp.levels[1].Nodes) >= 2
  /\ \E m \in NodeIdsOf(dag) : dag.Nodes[m].Level = 2

(***************************************************************************)
(* The policy cache under forced reloads                                   *)
(***************************************************************************)
\* C39 (as claimed): no call of LoadGatesConfig or ReloadGatesConfig returns
\* nil, and what ReloadGatesConfig returns was read from the file after the
\* call began.
C39_NoNilPolicy ==
  policyOp.caller # "" =>
    /\ policyOp.result # Nil
    /\ policyOp.reload => policyOp.result.readAt >= policyOp.reloadAt

\* What ReloadGatesConfig returns, nil or not, was not read before it began.
C39_ReloadReadsAfresh ==
  (policyOp.caller # "" /\ policyOp.reload /\ policyOp.result # Nil)
    => policyOp.result.readAt >= policyOp.reloadAt

(***************************************************************************)
(* The work of the graph walks                                             *)
(***************************************************************************)
NoRepeat(seq) == \A i, j \in 1..Len(seq) : i # j => seq[i] # seq[j]

\* C40: on every graph built by AddNode and AddEdge, repeated edges and
\* diamonds included, the search of AddEdge expands no node twice, the skip
\* propagation of a failure writes no node twice, writes only nodes below the
\* failed one that were not terminal, and leaves the DAG that
\* UpdateNodeStatus leaves, and TopoLevels processes every node once and
\* returns without error; each walk is bounded by the number of nodes.
C40_Step ==
  /\ dagOp'.op \in {"AddEdge", "UpdateNodeStatus", "TopoLevels"} =>
       /\ NoRepeat(dagOp'.walk)
       /\ Len(dagOp'.walk) <= Cardinality(NodeIdsOf(dag))
       /\ \A i \in 1..Len(dagOp'.walk) : dagOp'.walk[i] \in NodeIdsOf(dag)
  /\ dagOp'.op = "UpdateNodeStatus" =>
       LET r == skipTraceAll([s |-> [dag EXCEPT !.Nodes[dagOp'.a].Status = StatusFailed],
                              marked |-> <<>>],
                             dag.Nodes[dagOp'.a].Blocks, 1)
       IN /\ dagOp'.walk = r.marked
          /\ dag' = updateDAGStatus(r.s)
          /\ \A i \in 1..Len(dagOp'.walk) :
               /\ dagOp'.walk[i] \in Descendants(dag, dagOp'.a)
               /\ ~IsTerminal(dag.Nodes[dagOp'.walk[i]].Status)
               /\ dag'.Nodes[dagOp'.walk[i]].Status = StatusSkipped
  /\ dagOp'.op = "TopoLevels" =>
       /\ dagOp'.err = ""
       /\ Len(dagOp'.walk) = Cardinality(NodeIdsOf(dag))

C40_WalksBounded == [][C40_Step]_allVars

\* The search of AddEdge went through the whole diamond, which has a
\* repeated edge, and met its last node a second time.
C40_Witness ==
  /\ dagOp.op = "AddEdge"
  /\ dagOp.a = "d"
  /\ dagOp.b = "a"
  /\ dagOp.err # ""
  /\ Len(dagOp.walk) = 3
  /\ Len(dag.Nodes["d"].DependsOn) >= 2
  /\ \E id \in NodeIdsOf(dag) : ~NoRepeat(dag.Nodes[id].Blocks)

\* A failure was propagated through the diamond: three nodes written.
C40_WitnessSkip ==
  /\ dagOp.op = "UpdateNodeStatus"
  /\ Len(dagOp.walk) = 3
  /\ Len(dag.Nodes["d"].DependsOn) >= 2

=============================================================================
